---- MODULE Spec2Model ----
(***************************************************************************)
(* Model of ai-daily-digest (package arxiv_sanity_bot).                     *)
(*                                                                         *)
(*   SpecBot       the `bot` command: gather, deduplicate against the      *)
(*                 Document Store, summarize, tweet, write back.           *)
(*   SpecFallback  ContentProcessor._fallback_scoring as a pure function.  *)
(*   SpecScore     ContentProcessor.score_and_tag_contents with every      *)
(*                 behaviour of the LLM call.                              *)
(*   SpecTag       the tag thresholds of the fallback on pairs of scores.  *)
(*   SpecFetch     the `daily-digest` command up to the merged list: the   *)
(*                 fetches with their retries.                             *)
(*   SpecDigest    the `daily-digest` command from the merged list on:     *)
(*                 scoring, ranking, top-3 lists, summaries, insight.      *)
(*   SpecPublish   the `daily-digest` command from the insight on: the dry *)
(*                 run, the email and the Notion write, in every           *)
(*                 environment.                                            *)
(*   SpecSignature generate_signature and verify_signature.                *)
(*   SpecClient    GitHubTrendingClient.fetch_trending with its retries.   *)
(*   SpecNotion    NotionSender.send_daily_digest: the page, the blocks    *)
(*                 and the batched appends.                                *)
(***************************************************************************)
EXTENDS Integers, Sequences, FiniteSets, TLC

VARIABLES
    \* ---- the `bot` command -------------------------------------------
    doc_store,          \* the Document Store: arxiv id -> entry
    store0,             \* the Document Store when the current run started
                        \* (the store itself when no run is in progress)
    run,                \* number of `bot` runs started so far
    pc,                 \* position of the current run
    dry,                \* the --dry flag of the current run
    abstracts,          \* result of _gather_abstracts in the current run
    filtered_abstracts, \* result of _keep_only_new_abstracts
    summaries,          \* result of _summarize_top_abstracts
    todo,               \* papers of summaries[::-1] still to be sent
    summary_tweet_id,   \* id returned for the summary tweet (NoId = None)
    this,               \* (this_url, this_tweet_id) of the last paper send
    sent,               \* real tweets posted by the current run, in order
    tweeted,            \* history: arxiv ids really tweeted by earlier runs
    \* ---- the scoring engine ------------------------------------------
    contents,           \* argument of the scoring call
    llm,                \* what the LLM call did
    outcome,            \* what the scoring call returned or raised
    \* ---- the tag thresholds -----------------------------------------
    tagging,            \* two scores and the tags computed for them
    \* ---- the `daily-digest` command ----------------------------------
    dpc,                \* position of the daily_digest run
    ddry,               \* its --dry flag
    sources,            \* the list each source returned, by content type
    all_contents,       \* the merged list handed to the scoring engine
    scored_contents,    \* what the scoring engine returned, before the sort
    tagged_contents,    \* the same list after the sort
    global_top3,
    top3,               \* the per-category top-3 lists, by content type
    scoring_calls,      \* calls of score_and_tag_contents
    daily_insight,      \* result of generate_daily_insight
    insight_calls,      \* LLM calls made by generate_daily_insight
    attempts,           \* publish attempts of the run, in order
    environ,            \* the environment variables the run reads
    error,              \* the exception that ended daily_digest, if any
    fetch_ix,           \* index in DigestTypes of the source being fetched
    attempt,            \* attempts already made by the retried call in progress
    fetch_log,          \* the sources done so far, with how each ended
    feed,               \* index in TECH_BLOG_FEEDS of the feed being fetched
    all_posts,          \* the posts fetch_recent_posts has gathered so far
    \* ---- single components ------------------------------------------
    signing,            \* a signature issued and a verification of it
    notion,             \* a send_daily_digest call of the NotionSender
    client              \* a fetch_trending call of a GitHubTrendingClient

botVars   == <<doc_store, store0, run, pc, dry, abstracts, filtered_abstracts,
               summaries, todo, summary_tweet_id, this, sent, tweeted>>
scoreVars == <<contents, llm, outcome>>
tagVars   == <<tagging>>
digestVars == <<dpc, ddry, sources, all_contents, scored_contents, tagged_contents,
                global_top3, top3, scoring_calls, daily_insight, insight_calls,
                attempts, environ, error>>
fetchVars == <<fetch_ix, attempt, fetch_log, feed, all_posts>>
unitVars  == <<signing, notion, client>>
otherVars == <<tagVars, digestVars, fetchVars, unitVars>>
vars      == <<botVars, scoreVars, otherVars>>

(***************************************************************************)
(* Bounds                                                                  *)
(***************************************************************************)
MaxRuns == 2
MaxAbstracts == 3
\* MAX_NUM_PAPERS is imported from the configuration module, whose value
\* is not fixed by the sources at hand; the model takes a small one.
MaxNumPapers == 2

None == "None"
NoId == 0

(***************************************************************************)
(* Python helpers                                                          *)
(***************************************************************************)
RECURSIVE SeqsUpTo(_, _)
SeqsUpTo(S, n) ==
    IF n = 0 THEN {<<>>}
    ELSE LET shorter == SeqsUpTo(S, n - 1)
         IN  shorter \cup {Append(q, x) : q \in {r \in shorter : Len(r) = n - 1}, x \in S}

Min(a, b) == IF a < b THEN a ELSE b

\* seq[:n]
Head_n(seq, n) == SubSeq(seq, 1, Min(n, Len(seq)))

(***************************************************************************)
(* The candidate papers: rows of the abstracts DataFrame.  Two rows share  *)
(* an arxiv id, so a list may carry the same paper twice.                  *)
(***************************************************************************)
ArxivIds == {"2401.00001", "2401.00002", "2401.00003"}

Rows ==
    { [arxiv |-> "2401.00001", title |-> "A",  published_on |-> 1, url |-> "https://arxiv.org/abs/2401.00001"],
      [arxiv |-> "2401.00002", title |-> "B",  published_on |-> 2, url |-> "https://arxiv.org/abs/2401.00002"],
      [arxiv |-> "2401.00003", title |-> "C",  published_on |-> 3, url |-> ""],
      [arxiv |-> "2401.00001", title |-> "A2", published_on |-> 4, url |-> "https://arxiv.org/abs/2401.00001"] }

AbstractLists == SeqsUpTo(Rows, MaxAbstracts)

(***************************************************************************)
(* Document Store (store/store.py is not part of the sources at hand):     *)
(* a key-value mapping with a membership test and item assignment.         *)
(***************************************************************************)
store_contains(store, key) == key \in DOMAIN store

store_setitem(store, key, value) ==
    [k \in (DOMAIN store) \cup {key} |-> IF k = key THEN value ELSE store[k]]

EmptyStore == [k \in {} |-> None]

(***************************************************************************)
(* _keep_only_new_abstracts: the mask starts all True, the loop clears the *)
(* position of every row whose id is in the store, the rows with a True    *)
(* mask are returned in order.                                             *)
(***************************************************************************)
MutKeepMask(rows, store) == [idx \in 1..Len(rows) |-> TRUE]

KeepMask(rows, store) ==
    [idx \in 1..Len(rows) |-> ~ store_contains(store, rows[idx].arxiv)]

RECURSIVE ApplyMask(_, _, _)
ApplyMask(rows, mask, idx) ==
    IF idx > Len(rows) THEN <<>>
    ELSE (IF mask[idx] THEN <<rows[idx]>> ELSE <<>>) \o ApplyMask(rows, mask, idx + 1)

_keep_only_new_abstracts(rows, store) == ApplyMask(rows, KeepMask(rows, store), 1)

(***************************************************************************)
(* _summarize_top_abstracts: the first MAX_NUM_PAPERS rows are summarized; *)
(* a row whose LLM summary is None is skipped.  failed is the set of       *)
(* positions whose summary came back None.                                 *)
(***************************************************************************)
RECURSIVE SummarizeFrom(_, _, _)
SummarizeFrom(top_papers, failed, i) ==
    IF i > Len(top_papers) THEN <<>>
    ELSE (IF i \in failed THEN <<>>
          ELSE << [arxiv        |-> top_papers[i].arxiv,
                   title        |-> top_papers[i].title,
                   published_on |-> top_papers[i].published_on,
                   tweet        |-> "summary text",
                   url          |-> top_papers[i].url] >>)
         \o SummarizeFrom(top_papers, failed, i + 1)

_summarize_top_abstracts(selected_abstracts, failed) ==
    SummarizeFrom(Head_n(selected_abstracts, MaxNumPapers), failed, 1)

(***************************************************************************)
(* tweet_sender: the dry stub always answers the fake url and id; the real *)
(* sender answers a url and an id, or (None, None).                        *)
(***************************************************************************)
FakeUrl == "https://fake.url"
FakeId == 123456789

tweet_sender(is_dry, ok, new_id) ==
    IF is_dry THEN [url |-> FakeUrl, id |-> FakeId]
    ELSE IF ok THEN [url |-> "https://twitter.com/i/status", id |-> new_id]
    ELSE [url |-> None, id |-> NoId]

\* a real tweet was posted
Posted(is_dry, res) == ~ is_dry /\ res.url # None

\* The ids Twitter gives to the tweets of a run: one for the summary tweet,
\* one per paper tweet, one per url reply.
SummaryTweetId == 1000
PaperTweetId(s) == 1000 + s.published_on
UrlTweetId(s) == 2000 + s.published_on

\* the arxiv ids of the paper tweets in a log of posted tweets
PaperIds(log) == {log[i].arxiv : i \in {j \in 1..Len(log) : log[j].kind = "paper"}}

(***************************************************************************)
(* send_tweets, the store write of one loop iteration (lines 130-141).     *)
(***************************************************************************)
MutRecordAlways(store, s, this_url, this_tweet_id) ==
    store_setitem(store, s.arxiv,
                  [tweet_id |-> this_tweet_id, tweet_url |-> this_url,
                   title |-> s.title, published_on |-> s.published_on])

RecordTweet(store, s, this_url, this_tweet_id) ==
    IF this_url # None
    THEN store_setitem(store, s.arxiv,
                       [tweet_id     |-> this_tweet_id,
                        tweet_url    |-> this_url,
                        title        |-> s.title,
                        published_on |-> s.published_on])
    ELSE store

(***************************************************************************)
(* send_tweets, lines 106-114: the summary tweet.  Returns the position    *)
(* the run moves to and the result of the send, if one was made.           *)
(***************************************************************************)
MutSummaryStep(summary_tweet, is_dry, ok, new_id) ==
    [next |-> IF summary_tweet = None THEN "fatal" ELSE "loop",
     called |-> TRUE,
     res |-> tweet_sender(is_dry, ok, new_id)]

SummaryStep(summary_tweet, is_dry, ok, new_id) ==
    IF summary_tweet = None
    THEN [next |-> "fatal", called |-> FALSE, res |-> [url |-> None, id |-> NoId]]
    ELSE [next |-> "loop", called |-> TRUE, res |-> tweet_sender(is_dry, ok, new_id)]

(***************************************************************************)
(* Initial state: no run started, empty store, the scoring engine idle.    *)
(***************************************************************************)
NoSend == [url |-> None, id |-> NoId]

\* the parts of the model that a specification does not exercise stay idle
TagIdle == tagging = [done |-> FALSE, a |-> 0, b |-> 0, tag_a |-> None, tag_b |-> None]

\* the content types of daily_digest, in the order of the merge
DigestTypes ==
    <<"github", "hf_model", "hf_dataset", "hf_space", "arxiv", "blog", "twitter",
      "youtube">>
TypeSet == {DigestTypes[i] : i \in 1..Len(DigestTypes)}

NoSources == [t \in TypeSet |-> <<>>]

\* an environment with none of the variables of the publishing step set
NoEnviron == [addresses |-> FALSE, smtp |-> FALSE, sendgrid |-> FALSE, notion |-> "off"]

DigestLocalsUnset ==
    /\ scored_contents = <<>>
    /\ tagged_contents = <<>>
    /\ global_top3 = <<>>
    /\ top3 = NoSources
    /\ scoring_calls = 0
    /\ daily_insight = None
    /\ insight_calls = 0
    /\ attempts = <<>>
    /\ environ = NoEnviron
    /\ error = None

DigestIdle ==
    /\ dpc = "idle"
    /\ ddry = FALSE
    /\ sources = NoSources
    /\ all_contents = <<>>
    /\ DigestLocalsUnset

FetchIdle ==
    /\ fetch_ix = 0
    /\ attempt = 0
    /\ fetch_log = <<>>
    /\ feed = 0
    /\ all_posts = <<>>

\* no signature issued, no Notion call and no client call in progress
UnitsIdle ==
    /\ signing = [stage |-> "idle"]
    /\ notion = [stage |-> "idle"]
    /\ client = [stage |-> "idle"]

OthersIdle == TagIdle /\ DigestIdle /\ FetchIdle /\ UnitsIdle

InitBot ==
    /\ doc_store = EmptyStore
    /\ store0 = EmptyStore
    /\ run = 0
    /\ pc = "idle"
    /\ dry = FALSE
    /\ abstracts = <<>>
    /\ filtered_abstracts = <<>>
    /\ summaries = <<>>
    /\ todo = 0
    /\ summary_tweet_id = NoId
    /\ this = NoSend
    /\ sent = <<>>
    /\ tweeted = {}
    /\ contents = <<>>
    /\ llm = [kind |-> "idle"]
    /\ outcome = [status |-> "idle"]
    /\ OthersIdle

(***************************************************************************)
(* The locals of a run that has ended.                                     *)
(***************************************************************************)
LocalsCleared ==
    /\ dry' = FALSE
    /\ abstracts' = <<>>
    /\ filtered_abstracts' = <<>>
    /\ summaries' = <<>>
    /\ todo' = 0
    /\ summary_tweet_id' = NoId
    /\ this' = NoSend
    /\ sent' = <<>>

(***************************************************************************)
(* bot, lines 59-72: a new process starts, gathers the abstracts, returns  *)
(* at once when there is none, and otherwise opens the store and filters.  *)
(***************************************************************************)
BotStart ==
    /\ pc = "idle"
    /\ run < MaxRuns
    /\ \E gathered \in AbstractLists, d \in BOOLEAN :
         /\ dry' = d
         /\ abstracts' = gathered
         /\ filtered_abstracts' = IF Len(gathered) = 0 THEN <<>>
                                  ELSE _keep_only_new_abstracts(gathered, doc_store)
         /\ pc' = IF Len(gathered) = 0 THEN "returned" ELSE "filtered"
    /\ run' = run + 1
    /\ store0' = doc_store
    /\ summaries' = <<>>
    /\ todo' = 0
    /\ summary_tweet_id' = NoId
    /\ this' = NoSend
    /\ sent' = <<>>
    /\ UNCHANGED <<doc_store, tweeted>>
    /\ UNCHANGED scoreVars
    /\ UNCHANGED otherVars

(***************************************************************************)
(* bot, lines 74-77: summarize, and call send_tweets when there is at      *)
(* least one summary.                                                      *)
(***************************************************************************)
BotSummarize ==
    /\ pc = "filtered"
    /\ \E failed \in SUBSET (1..MaxNumPapers) :
         /\ summaries' = _summarize_top_abstracts(filtered_abstracts, failed)
         /\ todo' = Len(summaries')
         /\ pc' = IF Len(summaries') > 0 THEN "summary" ELSE "returned"
    /\ UNCHANGED <<doc_store, store0, run, dry, abstracts, filtered_abstracts,
                   summary_tweet_id, this, sent, tweeted>>
    /\ UNCHANGED scoreVars
    /\ UNCHANGED otherVars

(***************************************************************************)
(* bot, line 79, the returns and the uncaught FatalError: the process      *)
(* ends, its locals are gone.                                              *)
(***************************************************************************)
BotFinish ==
    /\ pc \in {"returned", "fatal"}
    /\ pc' = "idle"
    /\ LocalsCleared
    /\ store0' = doc_store
    /\ tweeted' = tweeted \cup PaperIds(sent)
    /\ UNCHANGED <<doc_store, run>>
    /\ UNCHANGED scoreVars
    /\ UNCHANGED otherVars

(***************************************************************************)
(* send_tweets, lines 105-114.                                             *)
(***************************************************************************)
SendSummary ==
    /\ pc = "summary"
    /\ \E summary_tweet \in {None, "summary tweet"}, ok \in BOOLEAN :
         LET step == SummaryStep(summary_tweet, dry, ok, SummaryTweetId)
         IN  /\ pc' = step.next
             /\ summary_tweet_id' = step.res.id
             /\ sent' = IF step.called /\ Posted(dry, step.res)
                        THEN Append(sent, [kind |-> "summary", arxiv |-> None,
                                           id |-> step.res.id, in_reply_to |-> NoId])
                        ELSE sent
    /\ UNCHANGED <<doc_store, store0, run, dry, abstracts, filtered_abstracts,
                   summaries, todo, this, tweeted>>
    /\ UNCHANGED scoreVars
    /\ UNCHANGED otherVars

(***************************************************************************)
(* send_tweets, lines 116-128: an iteration of the loop over               *)
(* summaries[::-1] sleeps 10 to 30 seconds and sends the paper tweet.      *)
(***************************************************************************)
SendPaper ==
    /\ pc = "loop"
    /\ todo > 0
    /\ \E ok \in BOOLEAN :
         LET s     == summaries[todo]
             res   == tweet_sender(dry, ok, PaperTweetId(s))
             paper == IF Posted(dry, res)
                      THEN << [kind |-> "paper", arxiv |-> s.arxiv,
                               id |-> res.id, in_reply_to |-> summary_tweet_id] >>
                      ELSE <<>>
         IN  /\ this' = res
             /\ sent' = sent \o paper
    /\ pc' = "posted"
    /\ UNCHANGED <<doc_store, store0, run, dry, abstracts, filtered_abstracts,
                   summaries, todo, summary_tweet_id, tweeted>>
    /\ UNCHANGED scoreVars
    /\ UNCHANGED otherVars

(***************************************************************************)
(* send_tweets, lines 130-141: the rest of the iteration.  When the paper  *)
(* tweet returned a url, the url of the paper is sent as a reply to it,    *)
(* two seconds later, and then the entry of the paper is written to the    *)
(* store.  After the last iteration the command finishes.                  *)
(***************************************************************************)
SendUrl ==
    /\ pc = "posted"
    /\ \E ok_url \in BOOLEAN :
         LET s       == summaries[todo]
             url_res == tweet_sender(dry, ok_url, UrlTweetId(s))
             reply   == IF this.url # None /\ s.url # "" /\ Posted(dry, url_res)
                        THEN << [kind |-> "url", arxiv |-> s.arxiv,
                                 id |-> url_res.id, in_reply_to |-> this.id] >>
                        ELSE <<>>
         IN  /\ sent' = sent \o reply
             /\ doc_store' = RecordTweet(doc_store, s, this.url, this.id)
    /\ todo' = todo - 1
    /\ pc' = IF todo = 1 THEN "returned" ELSE "loop"
    /\ UNCHANGED <<store0, run, dry, abstracts, filtered_abstracts, summaries,
                   summary_tweet_id, this, tweeted>>
    /\ UNCHANGED scoreVars
    /\ UNCHANGED otherVars

NextBot == BotStart \/ BotSummarize \/ SendSummary \/ SendPaper \/ SendUrl \/ BotFinish

SpecBot == InitBot /\ [][NextBot]_vars


(***************************************************************************)
(*                                                                         *)
(*        ContentProcessor: _fallback_scoring, score_and_tag_contents      *)
(*                                                                         *)
(***************************************************************************)
MaxItems == 2

\* Python values of the JSON and dict fields the engine reads.  Missing is
\* the absence of the key.
PyInt(n) == [kind |-> "int", int |-> n]
PyNone == [kind |-> "none", int |-> 0]
Missing == [kind |-> "missing", int |-> 0]

\* The tier tags: "🔥 必看", "📖 深度", "⚡ 速览".
TagMustRead == "must-read"
TagDeepDive == "deep-dive"
TagQuickGlance == "quick-glance"
TierTags == {TagMustRead, TagDeepDive, TagQuickGlance}

\* Texts are sequences of characters.  DefaultReason is "值得关注的内容".
DefaultReason == <<"worth", "a", "look">>
Ellipsis == <<".", ".", ".">>
ReasonCut == 40
LongDescription == [i \in 1..(ReasonCut + 1) |-> "x"]
Descriptions == {<<>>, <<"o", "k">>, LongDescription}

ContentTypes == {"github", "arxiv", "blog"}
StarValues == {PyInt(n) : n \in {0 - 600, 0, 10, 100, 101, 150, 500, 501, 600}}
                  \cup {PyNone, Missing}

Item(t, st, d) == [type |-> t, stars |-> st, description |-> d]

\* item.get("stars", 0) or 0
StarsOrZero(item) == IF item.stars.kind = "int" THEN item.stars.int ELSE 0

(***************************************************************************)
(* _fallback_scoring, lines 43-85.                                         *)
(***************************************************************************)
MutGithubBonusInclusive(stars) ==
    IF stars >= 500 THEN 3 ELSE IF stars >= 100 THEN 1 ELSE 0

MutGithubBonusLinear(stars) == stars \div 100

\* lines 51-54
GithubBonus(stars) ==
    IF stars > 500 THEN 3 ELSE IF stars > 100 THEN 1 ELSE 0

\* lines 45-61
FallbackScore(item) ==
    LET base        == 5
        with_github == IF item.type = "github"
                       THEN base + GithubBonus(StarsOrZero(item)) ELSE base
        with_arxiv  == IF item.type = "arxiv" THEN with_github + 1 ELSE with_github
    IN  Min(with_arxiv, 10)

MutFallbackTag(score) ==
    IF score > 8 THEN TagMustRead
    ELSE IF score > 5 THEN TagDeepDive
    ELSE TagQuickGlance

MutFallbackTagFiveIsLow(score) ==
    IF score >= 8 THEN TagMustRead
    ELSE IF score >= 6 THEN TagDeepDive
    ELSE TagQuickGlance

\* lines 64-69
FallbackTag(score) ==
    IF score >= 8 THEN TagMustRead
    ELSE IF score >= 5 THEN TagDeepDive
    ELSE TagQuickGlance

\* lines 72-75
FallbackReason(description) ==
    LET reason == IF Len(description) > ReasonCut
                  THEN SubSeq(description, 1, ReasonCut) \o Ellipsis
                  ELSE description
    IN  IF reason = <<>> THEN DefaultReason ELSE reason

\* a dict with the keys of item and the three scoring keys set
Scored(item, score, tag, reason) ==
    ("score" :> score) @@ ("tag" :> tag) @@ ("reason" :> reason) @@ item

MutSetInPlace(item, score, tag, reason) ==
    [input |-> Scored(item, score, tag, reason),
     copy  |-> Scored(item, score, tag, reason)]

\* lines 78-81 and 171-177: the three keys are set on item.copy(), a new
\* dict with the keys of item; input is the dict of the caller afterwards
CopyAndSet(item, score, tag, reason) ==
    [input |-> item, copy |-> Scored(item, score, tag, reason)]

\* lines 44-82: one turn of the loop
FallbackItem(item) ==
    LET score == FallbackScore(item)
    IN  CopyAndSet(item, PyInt(score), FallbackTag(score),
                   FallbackReason(item.description))

_fallback_scoring(items) ==
    [i \in 1..Len(items) |-> FallbackItem(items[i]).copy]

\* the dicts of the list passed to _fallback_scoring, after the call
AfterFallback(items) ==
    [i \in 1..Len(items) |-> FallbackItem(items[i]).input]

(***************************************************************************)
(* Inputs of the fallback: every type with every engagement value, every   *)
(* description shape, and scenario A (GitHub 10, 600, 150 stars, then two  *)
(* arXiv papers).                                                          *)
(***************************************************************************)
FallbackItems ==
    {Item(t, st, <<"o", "k">>) : t \in ContentTypes, st \in StarValues}
        \cup {Item("blog", PyInt(0), d) : d \in Descriptions}

ScenarioA ==
    << Item("github", PyInt(10), <<"o", "k">>),
       Item("github", PyInt(600), <<"o", "k">>),
       Item("github", PyInt(150), <<"o", "k">>),
       Item("arxiv", PyInt(0), <<"o", "k">>),
       Item("arxiv", Missing, <<>>) >>

FallbackInputs == SeqsUpTo(FallbackItems, MaxItems) \cup {ScenarioA}

BotIdle ==
    /\ doc_store = EmptyStore
    /\ store0 = EmptyStore
    /\ run = 0
    /\ pc = "idle"
    /\ dry = FALSE
    /\ abstracts = <<>>
    /\ filtered_abstracts = <<>>
    /\ summaries = <<>>
    /\ todo = 0
    /\ summary_tweet_id = NoId
    /\ this = NoSend
    /\ sent = <<>>
    /\ tweeted = {}

InitFallback ==
    /\ BotIdle
    /\ contents \in FallbackInputs
    /\ llm = [kind |-> "idle"]
    /\ outcome = [status |-> "idle"]
    /\ OthersIdle

FallbackCall ==
    /\ outcome.status = "idle"
    /\ outcome' = [status |-> "returned", path |-> "fallback",
                   value |-> _fallback_scoring(contents)]
    /\ contents' = AfterFallback(contents)
    /\ UNCHANGED llm
    /\ UNCHANGED botVars
    /\ UNCHANGED otherVars

NextFallback == FallbackCall

SpecFallback == InitFallback /\ [][NextFallback]_vars

(***************************************************************************)
(* The tag thresholds of lines 64-69 on their own: the tag is computed for *)
(* two scores at a time, taken from 0..MaxScore, so that the tags of any   *)
(* two scores can be compared.                                             *)
(***************************************************************************)
MaxScore == 11

ScoreIdle ==
    /\ contents = <<>>
    /\ llm = [kind |-> "idle"]
    /\ outcome = [status |-> "idle"]

InitTag ==
    /\ BotIdle
    /\ UnitsIdle
    /\ ScoreIdle
    /\ DigestIdle
    /\ FetchIdle
    /\ tagging \in [done : {FALSE}, a : 0..MaxScore, b : 0..MaxScore,
                    tag_a : {None}, tag_b : {None}]

TagCall ==
    /\ ~ tagging.done
    /\ tagging' = [tagging EXCEPT !.done = TRUE,
                                  !.tag_a = FallbackTag(tagging.a),
                                  !.tag_b = FallbackTag(tagging.b)]
    /\ UNCHANGED <<botVars, scoreVars, digestVars, fetchVars, unitVars>>

NextTag == TagCall

SpecTag == InitTag /\ [][NextTag]_vars

(***************************************************************************)
(* The LLM call of score_and_tag_contents (_call_openai).  It raises, or   *)
(* returns None, or returns a text.  A text is a sequence of pieces:       *)
(*    FenceJson  three backticks followed by json                          *)
(*    Fence      three backticks                                           *)
(*    Prose      words that are not JSON                                   *)
(*    Payload    one candidate JSON document, kept in the field json       *)
(* Pieces are separated by white space, which str.strip and json.loads     *)
(* both ignore.                                                            *)
(***************************************************************************)
MaxReply == 2
MaxPieces == 3

FenceJson == "FENCE-JSON"
Fence == "FENCE"
Prose == "prose"
Payload == "payload"

MissingTag == "<missing>"
MissingReason == <<"<missing>">>

\* an element of the JSON array: an object with optional keys, or not an
\* object at all
ScoreInfo(ix, sc, tg, rs) ==
    [isobj |-> TRUE, index |-> ix, score |-> sc, tag |-> tg, reason |-> rs]
NotAnObject ==
    [isobj |-> FALSE, index |-> Missing, score |-> Missing, tag |-> MissingTag,
     reason |-> MissingReason]

ReplyElements ==
    { ScoreInfo(PyInt(1), PyInt(9), TagMustRead, <<"r">>),
      ScoreInfo(PyInt(2), PyInt(3), TagQuickGlance, <<"r">>),
      ScoreInfo(PyInt(1), PyInt(11), "bogus", <<"r">>),
      ScoreInfo(Missing, Missing, MissingTag, MissingReason),
      NotAnObject }

JsonList(elems) == [type |-> "list", elems |-> elems]
JsonObject == [type |-> "object", elems |-> <<>>]
JsonNumber == [type |-> "number", elems |-> <<>>]
JsonDocuments ==
    {JsonList(e) : e \in SeqsUpTo(ReplyElements, MaxReply)} \cup {JsonObject, JsonNumber}

Count(seq, x) == Cardinality({i \in 1..Len(seq) : seq[i] = x})

Texts ==
    {q \in SeqsUpTo({FenceJson, Fence, Prose, Payload}, MaxPieces) : Count(q, Payload) <= 1}

LlmBehaviours ==
    {[kind |-> "raises", pieces |-> <<>>, json |-> JsonNumber],
     [kind |-> "none", pieces |-> <<>>, json |-> JsonNumber]}
      \cup {[kind |-> "text", pieces |-> q, json |-> j] :
                q \in {t \in Texts : Count(t, Payload) = 1}, j \in JsonDocuments}
      \cup {[kind |-> "text", pieces |-> q, json |-> JsonNumber] :
                q \in {t \in Texts : Count(t, Payload) = 0}}

(***************************************************************************)
(* Python str helpers on texts.                                            *)
(***************************************************************************)
Contains(text, piece) == \E i \in 1..Len(text) : text[i] = piece

\* index of the first piece of text, from position from on, that is in
\* seps; Len(text) + 1 when there is none
RECURSIVE FirstOf(_, _, _)
FirstOf(text, seps, from) ==
    IF from > Len(text) THEN Len(text) + 1
    ELSE IF text[from] \in seps THEN from
    ELSE FirstOf(text, seps, from + 1)

\* text.split(sep)[n] for n = 0 and n = 1, where the pieces in seps are the
\* ones that contain sep
Split0(text, seps) == SubSeq(text, 1, FirstOf(text, seps, 1) - 1)
Split1(text, seps) ==
    LET a == FirstOf(text, seps, 1)
    IN  SubSeq(text, a + 1, FirstOf(text, seps, a + 1) - 1)

(***************************************************************************)
(* lines 151-160: take the JSON out of a markdown code block.  The bare    *)
(* fence is a substring of the json fence.                                 *)
(***************************************************************************)
ExtractJson(text) ==
    IF Contains(text, FenceJson)
    THEN LET inner == Split1(text, {FenceJson})
         IN  IF Contains(inner, Fence) THEN Split0(inner, {Fence, FenceJson}) ELSE inner
    ELSE IF Contains(text, Fence)
    THEN Split1(text, {Fence, FenceJson})
    ELSE text

\* line 162: json.loads accepts exactly one JSON document
JsonLoads(text, json) ==
    IF text = <<Payload>> THEN [raised |-> FALSE, exc |-> None, data |-> json]
    ELSE [raised |-> TRUE, exc |-> "JSONDecodeError", data |-> JsonNumber]

(***************************************************************************)
(* lines 165-183: validate and apply the scores.                           *)
(***************************************************************************)
Get(value, missing, default) == IF value = missing THEN default ELSE value

\* line 165
Accepts(scores_data, items) ==
    /\ scores_data.type = "list"
    /\ Len(scores_data.elems) = Len(items)

\* lines 171-177
ApplyScoreInfo(item, score_info) ==
    CopyAndSet(item,
               Get(score_info.score, Missing, PyInt(5)),
               Get(score_info.tag, MissingTag, TagDeepDive),
               Get(score_info.reason, MissingReason, DefaultReason))

\* the dicts of the list passed to score_and_tag_contents, after the loop
\* of lines 169-178 has run over scores_data
AfterApply(items, scores_data) ==
    [i \in 1..Len(items) |-> ApplyScoreInfo(items[i], scores_data.elems[i]).input]

Returned(path, value) ==
    [raised |-> FALSE, exc |-> None, path |-> path, value |-> value]
Raised(exc) ==
    [raised |-> TRUE, exc |-> exc, path |-> "raise", value |-> <<>>]

\* lines 165-183; score_info.get on something that is not a dict raises
\* AttributeError
ValidateAndApply(items, scores_data) ==
    IF Accepts(scores_data, items)
    THEN IF \E i \in 1..Len(items) : ~ scores_data.elems[i].isobj
         THEN Raised("AttributeError")
         ELSE Returned("llm", [i \in 1..Len(items) |->
                                  ApplyScoreInfo(items[i], scores_data.elems[i]).copy])
    ELSE Returned("fallback", _fallback_scoring(items))

\* lines 149-187: the inner try and its handler
InnerCaught == {"JSONDecodeError", "KeyError"}

InnerTry(items, behaviour) ==
    LET body == IF behaviour.kind = "none"
                THEN Raised("AttributeError")        \* None.strip()
                ELSE LET loaded == JsonLoads(ExtractJson(behaviour.pieces), behaviour.json)
                     IN  IF loaded.raised THEN Raised(loaded.exc)
                         ELSE ValidateAndApply(items, loaded.data)
    IN  IF body.raised /\ body.exc \in InnerCaught
        THEN Returned("fallback", _fallback_scoring(items))
        ELSE body

\* `except Exception` catches every exception the body can raise here
Exceptions == {"APIError", "AttributeError", "JSONDecodeError", "KeyError", "TypeError"}

MutOuterCatches(exc) == exc \in InnerCaught

OuterCatches(exc) == exc \in Exceptions

\* lines 106-191
score_and_tag_contents(items, behaviour) ==
    IF items = <<>> THEN Returned("empty", <<>>)
    ELSE LET body == IF behaviour.kind = "raises" THEN Raised("APIError")
                     ELSE InnerTry(items, behaviour)
         IN  IF body.raised /\ OuterCatches(body.exc)
             THEN Returned("fallback", _fallback_scoring(items))
             ELSE body

(***************************************************************************)
(* The scoring call under every behaviour of the LLM.                      *)
(***************************************************************************)
ScoreItems ==
    { Item("github", PyInt(600), <<"o", "k">>),
      Item("arxiv", Missing, LongDescription) }

InitScore ==
    /\ BotIdle
    /\ contents \in SeqsUpTo(ScoreItems, MaxItems)
    /\ llm = [kind |-> "idle"]
    /\ outcome = [status |-> "idle"]
    /\ OthersIdle

ScoreCall ==
    /\ outcome.status = "idle"
    /\ \E behaviour \in LlmBehaviours :
         LET r == score_and_tag_contents(contents, behaviour)
         IN  /\ llm' = IF contents = <<>> THEN llm ELSE behaviour
             /\ outcome' = IF r.raised
                           THEN [status |-> "raised", path |-> r.path, value |-> <<>>]
                           ELSE [status |-> "returned", path |-> r.path, value |-> r.value]
             /\ contents' = IF r.path = "llm" THEN AfterApply(contents, behaviour.json)
                            ELSE IF r.path = "fallback" THEN AfterFallback(contents)
                            ELSE contents
    /\ UNCHANGED botVars
    /\ UNCHANGED otherVars

NextScore == ScoreCall

SpecScore == InitScore /\ [][NextScore]_vars

(***************************************************************************)
(* daily_digest, lines 291-584.  The source clients hand over lists of     *)
(* objects (repositories, models, papers, posts, ...); an object is known  *)
(* here by its title, its engagement number and its description.           *)
(***************************************************************************)
MaxDigest == 4
MaxRecentFeeds == 2
MaxInsight == 2
DescriptionCut == 200

\* The n-th object a source returns.  Its number of stars, downloads, likes
\* or views is an int, 0 when the source gave none; a paper has the score 1
\* when its row has none (line 652).
Fetched(t, n) ==
    [title |-> <<t, n>>,
     stars |-> PyInt(IF n % 2 = 1 THEN 600 ELSE IF t = "arxiv" THEN 1 ELSE 0),
     description |-> <<"o", "k">>,
     summary |-> <<>>]

FirstFetched(t, k) == [n \in 1..k |-> Fetched(t, n)]

\* lines 348-428: the dict made of one fetched object, with
\* `(description or "")[:200]`.  The stars are `stars or 0`, except that a
\* paper keeps `paper.get("score", 0)` as it is (line 392), None included,
\* and a blog post gets the literal 0 (line 402).
ContentDict(t, obj) ==
    [type |-> t,
     title |-> obj.title,
     stars |-> IF t = "arxiv"
               THEN (IF obj.stars = Missing THEN PyInt(0) ELSE obj.stars)
               ELSE IF t = "blog" THEN PyInt(0)
               ELSE IF obj.stars.kind = "int" THEN obj.stars ELSE PyInt(0),
     description |-> Head_n(obj.description, DescriptionCut),
     _original |-> obj]

\* lines 347-428: the lists are appended type after type
RECURSIVE MergeFrom(_, _)
MergeFrom(lists, i) ==
    IF i > Len(DigestTypes) THEN <<>>
    ELSE LET t == DigestTypes[i]
         IN  [n \in 1..Len(lists[t]) |-> ContentDict(t, lists[t][n])]
                 \o MergeFrom(lists, i + 1)

MergeContents(lists) == MergeFrom(lists, 1)

MutScoringNeeded(merged) == TRUE

\* line 433: `if all_contents:`
ScoringNeeded(merged) == merged # <<>>

(***************************************************************************)
(* line 439: tagged_contents.sort(key=score, reverse=True).  list.sort is  *)
(* stable, also with reverse=True: of two elements with equal keys the one *)
(* that came first stays first.  It raises TypeError as soon as it has to  *)
(* compare a key that is not a number, that is, whenever the list has two  *)
(* elements or more.                                                       *)
(***************************************************************************)
SortRaises(items) ==
    /\ Len(items) >= 2
    /\ \E i \in 1..Len(items) : items[i].score.kind # "int"

MutStaysBefore(y, x) == y.score.int > x.score.int

\* y, already placed, stays before x, which comes later in the list
StaysBefore(y, x) == y.score.int >= x.score.int

RECURSIVE InsertSorted(_, _)
InsertSorted(sorted, x) ==
    IF sorted = <<>> THEN <<x>>
    ELSE IF StaysBefore(Head(sorted), x)
    THEN <<Head(sorted)>> \o InsertSorted(Tail(sorted), x)
    ELSE <<x>> \o sorted

RECURSIVE SortFrom(_, _, _)
SortFrom(items, i, sorted) ==
    IF i > Len(items) THEN sorted
    ELSE SortFrom(items, i + 1, InsertSorted(sorted, items[i]))

SortByScore(items) == SortFrom(items, 1, <<>>)

\* `if c.get("_original")`: the fetched objects are all truthy
Truthy(obj) == obj # <<>>

Mut_get_top3_by_type(ranked, content_type) ==
    LET items == SelectSeq(Head_n(ranked, 3), LAMBDA c : c.type = content_type)
        kept  == SelectSeq(items, LAMBDA c : Truthy(c._original))
    IN  [i \in 1..Len(kept) |-> kept[i]._original]

\* lines 454-456
get_top3_by_type(ranked, content_type) ==
    LET items == SelectSeq(ranked, LAMBDA c : c.type = content_type)
        kept  == SelectSeq(Head_n(items, 3), LAMBDA c : Truthy(c._original))
    IN  [i \in 1..Len(kept) |-> kept[i]._original]

(***************************************************************************)
(* The replies of the scoring LLM in a daily_digest run: the call raises,  *)
(* or the reply gives every item one of three scores, or it gives every    *)
(* item the score null.                                                    *)
(***************************************************************************)
DigestScores == {3, 7, 9}

DigestReply(n, score_of) ==
    [kind |-> "text", pieces |-> <<Payload>>,
     json |-> JsonList([i \in 1..n |->
                 ScoreInfo(PyInt(i), score_of[i], TagDeepDive, <<"r">>)])]

DigestBehaviours(n) ==
    {[kind |-> "raises", pieces |-> <<>>, json |-> JsonNumber]}
        \cup {DigestReply(n, [i \in 1..n |-> PyInt(v[i])]) : v \in [1..n -> DigestScores]}
        \cup {DigestReply(n, [i \in 1..n |-> PyNone])}

(***************************************************************************)
(* generate_daily_insight, content_processor.py lines 193-234.  A text is  *)
(* a sequence of characters, " " standing for white space; the three fixed *)
(* sentences of the code are one-element texts of their own.               *)
(***************************************************************************)
InsightSteady == <<"steady">>       \* line 206, no top-3 context
InsightNews == <<"news">>           \* line 231, falsy reply
InsightActive == <<"active">>       \* line 234, the call raised

IsSpace(ch) == ch = " "

RECURSIVE LStrip(_)
LStrip(text) ==
    IF text # <<>> /\ IsSpace(Head(text)) THEN LStrip(Tail(text)) ELSE text

RECURSIVE RStrip(_)
RStrip(text) ==
    IF text # <<>> /\ IsSpace(text[Len(text)])
    THEN RStrip(SubSeq(text, 1, Len(text) - 1))
    ELSE text

\* str.strip
Strip(text) == RStrip(LStrip(text))

InsightReplies ==
    {[kind |-> "raises", text |-> <<>>], [kind |-> "none", text |-> <<>>]}
        \cup {[kind |-> "text", text |-> q] : q \in SeqsUpTo({" ", "a"}, MaxInsight)}

\* calls is the number of LLM calls made
generate_daily_insight(context, reply) ==
    IF context = <<>> THEN [calls |-> 0, value |-> InsightSteady]
    ELSE IF reply.kind = "raises" THEN [calls |-> 1, value |-> InsightActive]
    ELSE IF reply.kind = "none" \/ reply.text = <<>>
    THEN [calls |-> 1, value |-> InsightNews]
    ELSE [calls |-> 1, value |-> Strip(reply.text)]

\* what the LLM call of summarize_paper does: it raises, or returns nothing,
\* or returns a text
SummaryReplies ==
    {[kind |-> "raises", text |-> <<>>], [kind |-> "none", text |-> <<>>],
     [kind |-> "text", text |-> <<" ", "s">>]}

\* content_processor.py lines 236-266: one LLM call; the summary is the
\* reply stripped, and "" when the reply is falsy or the call raised
summarize_paper(paper, reply) ==
    IF reply.kind = "text" /\ reply.text # <<>> THEN Strip(reply.text) ELSE <<>>

\* content_processor.py lines 268-295: copies of the papers with a summary,
\* one call of summarize_paper for each of the first three papers, each
\* failing on its own: replies[i] is the reply to the call for paper i
batch_summarize_papers(papers, replies) ==
    [i \in 1..Len(papers) |->
        [papers[i] EXCEPT !.summary =
            IF i <= 3 THEN summarize_paper(papers[i], replies[i]) ELSE <<>>]]

\* the replies to the summary calls of one run
SummaryOutcomes == [1..3 -> SummaryReplies]

\* lines 502-507: one line per item of global_top3, "" when there is none
top3_context(top) ==
    [i \in 1..Len(top) |->
        [tag |-> top[i].tag, title |-> top[i].title, reason |-> top[i].reason]]

(***************************************************************************)
(* Publishing, lines 512-582.  The environment says whether TO_EMAIL and   *)
(* FROM_EMAIL are set, whether the SMTP settings are complete, whether the *)
(* SendGrid key is set, and how Notion is configured.                      *)
(***************************************************************************)
NotionEnvs == {"off", "no-credentials", "on"}
Environs == [addresses : BOOLEAN, smtp : BOOLEAN, sendgrid : BOOLEAN, notion : NotionEnvs]

\* the functions the module of the command defines
ModuleFunctions ==
    {"bot", "send_tweets", "_keep_only_new_abstracts", "_summarize_top_abstracts",
     "_summarize", "_gather_abstracts", "daily_digest", "_fetch_github_trending",
     "_fetch_huggingface_trending", "_fetch_arxiv_papers", "_fetch_blog_posts",
     "_fetch_twitter_content", "_fetch_youtube_content", "_print_digest_summary",
     "cli", "_send_to_notion_if_enabled"}

\* lines 512-524: the functions the dry run calls before it returns
DryRunCalls == <<"_print_digest_summary", "_generate_html_preview">>

\* calling a name the module does not define raises NameError
CallAll(names) ==
    IF \A i \in 1..Len(names) : names[i] \in ModuleFunctions
    THEN Returned("return", TRUE)
    ELSE Raised("NameError")

\* lines 527-554: None stands for the two early returns
ChooseSender(env) ==
    IF ~ env.addresses THEN None
    ELSE IF env.smtp THEN "smtp"
    ELSE IF env.sendgrid THEN "sendgrid"
    ELSE None

\* lines 556-570: the keyword arguments of the send_digest call
DigestCallKeywords ==
    {"github_repos", "hf_models", "hf_datasets", "hf_spaces", "arxiv_papers",
     "blog_posts", "to_email", "from_email", "daily_insight", "tweets", "videos",
     "all_scored_contents", "global_top3"}

\* the parameters of EmailSender.send_digest and SendGridEmailSender.send_digest
BaseDigestParams ==
    {"github_repos", "hf_models", "hf_datasets", "hf_spaces", "arxiv_papers",
     "blog_posts", "to_email", "from_email", "subject", "daily_insight", "tweets",
     "videos"}

\* the parameters send_digest declares: smtp_sender.py lines 54-70,
\* email_sender.py lines 79-93
SendDigestParams(sender) ==
    IF sender = "smtp"
    THEN BaseDigestParams \cup {"all_scored_contents", "global_top3"}
    ELSE BaseDigestParams

\* what the mail transport does with the message
Transports == {"accepted", "refused", "exception"}

\* send_digest as daily_digest calls it.  A keyword the method does not
\* declare makes the call raise TypeError before the body runs; in the
\* body every failure of the transport is caught and gives False.
send_digest(sender, transport) ==
    IF ~ (DigestCallKeywords \subseteq SendDigestParams(sender))
    THEN Raised("TypeError")
    ELSE IF transport = "accepted" THEN Returned("sent", TRUE)
    ELSE IF transport = "refused" THEN Returned("refused", FALSE)
    ELSE Returned("except", FALSE)

\* what the body of the try of _send_to_notion_if_enabled does
NotionOutcomes == {"ok", "APIResponseError", "RequestTimeoutError"}

\* lines 766-856: nothing is attempted unless OUTPUT_NOTION is true and
\* the credentials are set; every exception of the attempt is caught
_send_to_notion_if_enabled(notion_env, notion_outcome) ==
    IF notion_env # "on" THEN <<>>
    ELSE <<[channel |-> "notion", ok |-> notion_outcome = "ok"]>>

(***************************************************************************)
(* The run from line 432 on.  It starts with the lists of the sources      *)
(* merged; here GitHub and arXiv return up to MaxDigest objects together   *)
(* and the other sources return none.                                      *)
(***************************************************************************)
SourcesWith(g, a) ==
    [NoSources EXCEPT !["github"] = FirstFetched("github", g),
                      !["arxiv"] = FirstFetched("arxiv", a)]

DigestSources ==
    {SourcesWith(c[1], c[2]) :
        c \in {d \in (0..MaxDigest) \X (0..MaxDigest) : d[1] + d[2] <= MaxDigest}}

InitDigest ==
    /\ BotIdle
    /\ UnitsIdle
    /\ ScoreIdle
    /\ TagIdle
    /\ dpc = "merged"
    /\ ddry \in BOOLEAN
    /\ sources \in DigestSources
    /\ all_contents = MergeContents(sources)
    /\ DigestLocalsUnset
    /\ FetchIdle

\* lines 432-493: score, rank, cut the top-3 lists; the exception of the
\* scoring call or of the sort (line 439) ends the command
Assemble ==
    /\ dpc = "merged"
    /\ \E behaviour \in DigestBehaviours(Len(all_contents)) :
         IF ScoringNeeded(all_contents)
         THEN LET r == score_and_tag_contents(all_contents, behaviour)
              IN  /\ scoring_calls' = scoring_calls + 1
                  /\ scored_contents' = r.value
                  /\ IF r.raised \/ SortRaises(r.value)
                     THEN /\ dpc' = "raised"
                          /\ error' = IF r.raised THEN r.exc ELSE "TypeError"
                          /\ UNCHANGED <<tagged_contents, global_top3, top3>>
                     ELSE LET ranked == SortByScore(r.value)
                          IN  /\ dpc' = "ranked"
                              /\ error' = error
                              /\ tagged_contents' = ranked
                              /\ global_top3' = Head_n(ranked, 3)
                              /\ top3' = [t \in TypeSet |->
                                    get_top3_by_type(ranked, t)]
         ELSE /\ dpc' = "ranked"
              /\ tagged_contents' = <<>>
              /\ global_top3' = <<>>
              /\ top3' = [t \in TypeSet |-> Head_n(sources[t], 3)]
              /\ UNCHANGED <<scoring_calls, scored_contents, error>>
    /\ UNCHANGED <<ddry, sources, all_contents, daily_insight, insight_calls, attempts,
                   environ>>
    /\ UNCHANGED <<botVars, scoreVars, tagVars, fetchVars, unitVars>>

\* lines 495-498: outside a dry run the papers of the top-3 list get their
\* summaries, one LLM call for each
Summarize ==
    /\ dpc = "ranked"
    /\ IF ~ ddry /\ top3["arxiv"] # <<>>
       THEN \E replies \in SummaryOutcomes :
              top3' = [top3 EXCEPT !["arxiv"] = batch_summarize_papers(@, replies)]
       ELSE UNCHANGED top3
    /\ dpc' = "assembled"
    /\ UNCHANGED <<ddry, sources, all_contents, scored_contents, tagged_contents,
                   global_top3, scoring_calls, daily_insight, insight_calls, attempts,
                   environ, error>>
    /\ UNCHANGED <<botVars, scoreVars, tagVars, fetchVars, unitVars>>

\* lines 500-510
Insight ==
    /\ dpc = "assembled"
    /\ \E reply \in InsightReplies :
         LET r == generate_daily_insight(top3_context(global_top3), reply)
         IN  /\ daily_insight' = r.value
             /\ insight_calls' = insight_calls + r.calls
    /\ dpc' = "insight"
    /\ UNCHANGED <<ddry, sources, all_contents, scored_contents, tagged_contents,
                   global_top3, top3, scoring_calls, attempts,
                   environ, error>>
    /\ UNCHANGED <<botVars, scoreVars, tagVars, fetchVars, unitVars>>

NextDigest == Assemble \/ Summarize \/ Insight

SpecDigest == InitDigest /\ [][NextDigest]_vars

(***************************************************************************)
(* The run from line 512 on, in every environment.  It starts where the    *)
(* insight has been computed, in the runs where every LLM call raised:    *)
(* the contents carry the scores of the fallback scoring, the papers have  *)
(* empty summaries and the insight is one of the fixed sentences.          *)
(***************************************************************************)
LlmDown == [kind |-> "raises", pieces |-> <<>>, json |-> JsonNumber]

\* the reply to a text call of the LLM that raised
InsightDown == [kind |-> "raises", text |-> <<>>]

InitPublish ==
    /\ BotIdle
    /\ UnitsIdle
    /\ ScoreIdle
    /\ TagIdle
    /\ FetchIdle
    /\ dpc = "insight"
    /\ ddry \in BOOLEAN
    /\ sources \in DigestSources
    /\ all_contents = MergeContents(sources)
    /\ scoring_calls = IF ScoringNeeded(all_contents) THEN 1 ELSE 0
    /\ scored_contents =
          IF ScoringNeeded(all_contents)
          THEN score_and_tag_contents(all_contents, LlmDown).value
          ELSE <<>>
    /\ tagged_contents = SortByScore(scored_contents)
    /\ global_top3 = Head_n(tagged_contents, 3)
    /\ top3 = [t \in TypeSet |->
                  LET top == IF ScoringNeeded(all_contents)
                             THEN get_top3_by_type(tagged_contents, t)
                             ELSE Head_n(sources[t], 3)
                  IN  IF t = "arxiv" /\ ~ ddry /\ top # <<>>
                      THEN batch_summarize_papers(top, [i \in 1..3 |-> InsightDown])
                      ELSE top]
    /\ daily_insight = generate_daily_insight(top3_context(global_top3), InsightDown).value
    /\ insight_calls = generate_daily_insight(top3_context(global_top3), InsightDown).calls
    /\ attempts = <<>>
    /\ environ \in Environs
    /\ error = None

\* lines 512-575: the dry run prints and builds the preview; the real run
\* returns when it has no addresses or no sender, and else sends the email
SendEmail ==
    /\ dpc = "insight"
    /\ IF ddry
       THEN LET r == CallAll(DryRunCalls)
            IN  /\ dpc' = IF r.raised THEN "raised" ELSE "done"
                /\ error' = r.exc
                /\ UNCHANGED attempts
       ELSE LET sender == ChooseSender(environ)
            IN  IF sender = None
                THEN dpc' = "done" /\ UNCHANGED <<attempts, error>>
                ELSE \E transport \in Transports :
                       LET r == send_digest(sender, transport)
                       IN  IF r.raised
                           THEN /\ dpc' = "raised"
                                /\ error' = r.exc
                                /\ UNCHANGED attempts
                           ELSE /\ dpc' = "emailed"
                                /\ attempts' = Append(attempts,
                                       [channel |-> sender, ok |-> r.value])
                                /\ UNCHANGED error
    /\ UNCHANGED <<ddry, sources, all_contents, scored_contents, tagged_contents,
                   global_top3, top3, scoring_calls, daily_insight, insight_calls,
                   environ>>
    /\ UNCHANGED <<botVars, scoreVars, tagVars, fetchVars, unitVars>>

\* lines 577-584
SendNotion ==
    /\ dpc = "emailed"
    /\ dpc' = "done"
    /\ \E notion_outcome \in NotionOutcomes :
         attempts' = attempts \o _send_to_notion_if_enabled(environ.notion, notion_outcome)
    /\ UNCHANGED <<ddry, sources, all_contents, scored_contents, tagged_contents,
                   global_top3, top3, scoring_calls, daily_insight, insight_calls,
                   environ, error>>
    /\ UNCHANGED <<botVars, scoreVars, tagVars, fetchVars, unitVars>>

NextPublish == SendEmail \/ SendNotion

SpecPublish == InitPublish /\ [][NextPublish]_vars

(***************************************************************************)
(* The fetches of daily_digest, lines 304-328 and 587-710.  The sources    *)
(* are called one after another: GitHub, HuggingFace (models, datasets,    *)
(* spaces), arXiv, blogs, Twitter, YouTube.  A call of a client is retried *)
(* by its tenacity decorator; what escapes the retries is caught and the   *)
(* source hands over [].  The blog client retries each of its feeds on its *)
(* own and leaves out the feeds that failed.                               *)
(***************************************************************************)
DEFAULT_NUM_RETRIES == 3

\* imported from the configuration module, whose value is not fixed by the
\* sources at hand
HF_N_RETRIES == 3

HuggingFaceTypes == {"hf_model", "hf_dataset", "hf_space"}

\* the attempts the decorator of the client allows; get_all_abstracts is
\* called once
MaxAttempts(t) ==
    IF t \in HuggingFaceTypes THEN HF_N_RETRIES
    ELSE IF t = "arxiv" THEN 1
    ELSE DEFAULT_NUM_RETRIES

Mut_stop_after_attempt(max_attempt_number, attempt_number) ==
    attempt_number > max_attempt_number

\* tenacity.stop_after_attempt
stop_after_attempt(max_attempt_number, attempt_number) ==
    attempt_number >= max_attempt_number

\* an attempt returns, or raises a network error, or raises something else
FetchResults == {"ok", "RequestException", "ValueError"}

\* retry_if_exception_type: the GitHub and HuggingFace clients retry on
\* network errors and on their own error type, the others on any Exception
retry_if_exception_type(t, exc) ==
    IF t \in {"github"} \cup HuggingFaceTypes THEN exc = "RequestException" ELSE TRUE

Mut_fetch_catches(exc) == exc = "RequestException"

\* `except Exception` around every fetch
_fetch_catches(exc) == exc \in {"RequestException", "ValueError"}

\* CONTENT_SOURCES decides whether Twitter and YouTube are fetched at all
Optional(t) == t \in {"twitter", "youtube"}

\* twitter_source.py lines 31-32 and youtube_source.py lines 41 and 43
DEFAULT_MIN_LIKES == 100
DEFAULT_MAX_TWEETS_PER_USER == 5
DEFAULT_MIN_VIEWS == 10000
DEFAULT_MAX_VIDEOS_PER_CHANNEL == 3

\* The items the remote answers with, when it has any: two repositories;
\* one model, dataset, space and paper; the tweets of one account, each
\* recent, with their likes and retweets; the videos of one channel, each
\* recent, long enough and on the topic, with their views.  Some tweets and videos are below the threshold of the
\* client, one is just at it, and the channel has more videos above it
\* than the client keeps.
Answered(t) ==
    IF t = "github" THEN FirstFetched(t, 2)
    ELSE IF t = "twitter"
    THEN <<[n |-> 1, like_count |-> 50, retweet_count |-> 400],
           [n |-> 2, like_count |-> 100, retweet_count |-> 0],
           [n |-> 3, like_count |-> 600, retweet_count |-> 0],
           [n |-> 4, like_count |-> 150, retweet_count |-> 300]>>
    ELSE IF t = "youtube"
    THEN <<[n |-> 1, view_count |-> 600],
           [n |-> 2, view_count |-> 10000],
           [n |-> 3, view_count |-> 50000],
           [n |-> 4, view_count |-> 20000],
           [n |-> 5, view_count |-> 30000]>>
    ELSE FirstFetched(t, 1)

\* what the remote answers to an attempt that succeeds: nothing, or items
Answers(t) == {<<>>, Answered(t)}

\* list.sort(key=..., reverse=True), a stable sort; key is the function
\* that gives the key of every item
RECURSIVE InsertDescending(_, _, _)
InsertDescending(key, sorted, x) ==
    IF sorted = <<>> THEN <<x>>
    ELSE IF key[Head(sorted)] >= key[x]
    THEN <<Head(sorted)>> \o InsertDescending(key, Tail(sorted), x)
    ELSE <<x>> \o sorted

RECURSIVE SortDescending(_, _)
SortDescending(key, items) ==
    IF items = <<>> THEN <<>>
    ELSE InsertDescending(key, SortDescending(key, SubSeq(items, 1, Len(items) - 1)),
                          items[Len(items)])

\* the items sorted by their engagement_score, highest first
SortByEngagement(items) ==
    SortDescending([x \in {items[i] : i \in 1..Len(items)} |-> x.stars.int], items)

\* twitter_source.py lines 206-266: a tweet with fewer likes than min_likes
\* is dropped (None); the engagement of the others is likes + 2 * retweets
_parse_tweet(tweet, min_likes) ==
    IF tweet.like_count < min_likes THEN PyNone
    ELSE [Fetched("twitter", tweet.n)
          EXCEPT !.stars = PyInt(tweet.like_count + tweet.retweet_count * 2)]

\* youtube_source.py lines 249-328: a video with fewer views than min_views
\* is dropped (None); the engagement of the others is their views
_parse_video(video, min_views) ==
    IF video.view_count < min_views THEN PyNone
    ELSE [Fetched("youtube", video.n) EXCEPT !.stars = PyInt(video.view_count)]

\* the items of `parsed` that are not None, in their order
RECURSIVE Kept(_)
Kept(parsed) ==
    IF parsed = <<>> THEN <<>>
    ELSE IF Head(parsed) = PyNone THEN Kept(Tail(parsed))
    ELSE <<Head(parsed)>> \o Kept(Tail(parsed))

\* What the source returns when an attempt succeeds.  fetch_recent_tweets
\* and fetch_recent_videos, called with their defaults, parse the answer,
\* keep the first max_results items that were not dropped, and sort them by
\* engagement, highest first (twitter_source.py lines 98-149 and 184-202,
\* youtube_source.py lines 110-165 and 224-243); an account or channel whose
\* request fails is left out (lines 137-143 and 153-159), as one that
\* answers nothing.  The other sources hand over what they were answered.
Served(t, answer) ==
    IF t = "twitter"
    THEN SortByEngagement(
             Head_n(Kept([i \in 1..Len(answer) |->
                             _parse_tweet(answer[i], DEFAULT_MIN_LIKES)]),
                    DEFAULT_MAX_TWEETS_PER_USER))
    ELSE IF t = "youtube"
    THEN SortByEngagement(
             Head_n(Kept([i \in 1..Len(answer) |->
                             _parse_video(answer[i], DEFAULT_MIN_VIEWS)]),
                    DEFAULT_MAX_VIDEOS_PER_CHANNEL))
    ELSE answer

\* tech_blogs.py lines 24-35: the ten feeds, in the order of the dict
TECH_BLOG_FEEDS == 1..10

\* A post of a feed.  The day of publication is counted from the cutoff
\* date of the run: a post of day 0 or later is of the last `days` days.
BlogPost(f, n, day) ==
    [title |-> <<"blog", f, n>>,
     stars |-> PyNone,
     description |-> <<"o", "k">>,
     summary |-> <<>>,
     published_on |-> day]

\* The entries a feed serves, newest first.  The first feed has four posts
\* of the last days, the other feeds up to MaxRecentFeeds have one, and
\* every feed has an older post.
FeedEntries(f) ==
    IF f = 1
    THEN [n \in 1..4 |-> BlogPost(1, n, 5 - n)] \o <<BlogPost(1, 5, -1)>>
    ELSE IF f <= MaxRecentFeeds
    THEN <<BlogPost(f, 1, f + 1), BlogPost(f, 2, -1)>>
    ELSE <<BlogPost(f, 1, -1)>>

\* tech_blogs.py lines 103-106: the posts since the cutoff date, at most
\* limit_per_source of them (--blog-limit, 3)
recent_posts(posts) ==
    Head_n(SelectSeq(posts, LAMBDA q : q.published_on >= 0), 3)

\* tech_blogs.py line 117: all_posts.sort(key=published_on, reverse=True),
\* a stable sort
SortByDate(posts) ==
    SortDescending([q \in {posts[i] : i \in 1..Len(posts)} |-> q.published_on], posts)

\* tech_blogs.py lines 108-114: `except Exception` around the fetch of a feed
_feed_catches(exc) == exc \in {"RequestException", "ValueError"}

InitFetch ==
    /\ BotIdle
    /\ UnitsIdle
    /\ ScoreIdle
    /\ TagIdle
    /\ dpc = "fetching"
    /\ ddry \in BOOLEAN
    /\ sources = NoSources
    /\ all_contents = <<>>
    /\ DigestLocalsUnset
    /\ fetch_ix = 1
    /\ attempt = 0
    /\ fetch_log = <<>>
    /\ feed = 1
    /\ all_posts = <<>>

\* the source is done: its list is kept and the next source is up
FetchDone(t, status, items) ==
    /\ sources' = [sources EXCEPT ![t] = items]
    /\ fetch_log' = Append(fetch_log, [source |-> t, status |-> status])
    /\ fetch_ix' = fetch_ix + 1
    /\ attempt' = 0
    /\ dpc' = dpc

\* one attempt of the source that is up, for every source but the blogs
Fetch ==
    /\ dpc = "fetching"
    /\ fetch_ix <= Len(DigestTypes)
    /\ DigestTypes[fetch_ix] # "blog"
    /\ UNCHANGED <<feed, all_posts>>
    /\ LET t == DigestTypes[fetch_ix]
       IN  \E enabled \in BOOLEAN, result \in FetchResults, answer \in Answers(t) :
             IF Optional(t) /\ attempt = 0 /\ ~ enabled
             THEN FetchDone(t, "disabled", <<>>)
             ELSE IF result = "ok"
             THEN FetchDone(t, "ok", Served(t, answer))
             ELSE IF /\ retry_if_exception_type(t, result)
                     /\ ~ stop_after_attempt(MaxAttempts(t), attempt + 1)
             THEN /\ attempt' = attempt + 1
                  /\ UNCHANGED <<dpc, sources, fetch_log, fetch_ix>>
             ELSE IF _fetch_catches(result)
             THEN FetchDone(t, "failed", <<>>)
             ELSE /\ dpc' = "aborted"
                  /\ attempt' = attempt + 1
                  /\ UNCHANGED <<sources, fetch_log, fetch_ix>>
    /\ UNCHANGED <<ddry, all_contents, scored_contents, tagged_contents, global_top3,
                   top3, scoring_calls, daily_insight, insight_calls, attempts,
                   environ, error>>
    /\ UNCHANGED <<botVars, scoreVars, tagVars, unitVars>>

\* the feed is done: the next feed is up, and after the last feed
\* fetch_recent_posts sorts the posts and returns them
FeedDone(posts) ==
    IF feed + 1 \in TECH_BLOG_FEEDS
    THEN /\ feed' = feed + 1
         /\ all_posts' = posts
         /\ attempt' = 0
         /\ UNCHANGED <<dpc, sources, fetch_log, fetch_ix>>
    ELSE /\ FetchDone("blog", "ok", SortByDate(posts))
         /\ feed' = 1
         /\ all_posts' = <<>>

\* _fetch_blog_posts, lines 664-676, and fetch_recent_posts, tech_blogs.py
\* lines 74-141: one attempt of the feed that is up.  A feed that fails
\* after its retries is left out and the next feed is fetched.
FetchFeed ==
    /\ dpc = "fetching"
    /\ fetch_ix <= Len(DigestTypes)
    /\ DigestTypes[fetch_ix] = "blog"
    /\ \E result \in FetchResults :
         IF result = "ok"
         THEN FeedDone(all_posts \o recent_posts(FeedEntries(feed)))
         ELSE IF /\ retry_if_exception_type("blog", result)
                 /\ ~ stop_after_attempt(MaxAttempts("blog"), attempt + 1)
         THEN /\ attempt' = attempt + 1
              /\ UNCHANGED <<dpc, sources, fetch_log, fetch_ix, feed, all_posts>>
         ELSE IF _feed_catches(result)
         THEN FeedDone(all_posts)
         ELSE IF _fetch_catches(result)
         THEN /\ FetchDone("blog", "failed", <<>>)
              /\ feed' = 1
              /\ all_posts' = <<>>
         ELSE /\ dpc' = "aborted"
              /\ attempt' = attempt + 1
              /\ UNCHANGED <<sources, fetch_log, fetch_ix, feed, all_posts>>
    /\ UNCHANGED <<ddry, all_contents, scored_contents, tagged_contents, global_top3,
                   top3, scoring_calls, daily_insight, insight_calls, attempts,
                   environ, error>>
    /\ UNCHANGED <<botVars, scoreVars, tagVars, unitVars>>

\* lines 347-430
Merge ==
    /\ dpc = "fetching"
    /\ fetch_ix = Len(DigestTypes) + 1
    /\ dpc' = "merged"
    /\ all_contents' = MergeContents(sources)
    /\ UNCHANGED <<ddry, sources, scored_contents, tagged_contents, global_top3,
                   top3, scoring_calls, daily_insight, insight_calls, attempts,
                   environ, error>>
    /\ UNCHANGED fetchVars
    /\ UNCHANGED <<botVars, scoreVars, tagVars, unitVars>>

NextFetch == Fetch \/ FetchFeed \/ Merge

SpecFetch == InitFetch /\ [][NextFetch]_vars

(***************************************************************************)
(*                                                                         *)
(*          signature.py: generate_signature, verify_signature             *)
(*                                                                         *)
(* A string is a sequence of characters; the content id and the date are   *)
(* non-empty strings over a letter and the separator.  The empty string    *)
(* stands for every falsy key: None, "" or an unset SECRET_KEY.            *)
(***************************************************************************)
MaxField == 2

FieldChars == {"a", ":"}
Fields == SeqsUpTo(FieldChars, MaxField) \ {<<>>}
SecretKeys == {<<>>, <<"k">>}
EnvKeys == {<<>>, <<"e">>}

\* line 31, [:16]: the signature has 16 characters
SignatureLen == 16

\* line 22: secret_key or os.environ.get("SECRET_KEY", "")
EffectiveKey(secret_key, env_key) ==
    IF secret_key # <<>> THEN secret_key ELSE env_key

\* line 26: f"{content_id}:{date}"
Message(content_id, date) == content_id \o <<":">> \o date

\* lines 27-31: the first 16 hex digits of HMAC-SHA256, taken as free of
\* collisions: the digest is written as the key and the message it was
\* computed from.  changed is the position of a character that was replaced
\* afterwards (0 for none) and by the kind of the replacing character.
hmac_hexdigest(key, message) ==
    [key |-> key, message |-> message, changed |-> 0, by |-> "none"]

\* the string with the character at position i replaced by another one
ChangeChar(sig, i, by) == [sig EXCEPT !.changed = i, !.by = by]

\* lines 7-33
generate_signature(content_id, date, secret_key, env_key) ==
    LET key == EffectiveKey(secret_key, env_key)
    IN  IF key = <<>> THEN Raised("ValueError")
        ELSE Returned("return", hmac_hexdigest(key, Message(content_id, date)))

IsAscii(sig) == sig.by # "non-ascii"

\* hmac.compare_digest on two str: TypeError unless both are ASCII
compare_digest(a, b) ==
    IF IsAscii(a) /\ IsAscii(b) THEN Returned("return", a = b)
    ELSE Raised("TypeError")

\* lines 36-56: only ValueError is caught
verify_signature(content_id, date, signature, secret_key, env_key) ==
    LET expected == generate_signature(content_id, date, secret_key, env_key)
    IN  IF expected.raised
        THEN IF expected.exc = "ValueError" THEN Returned("except", FALSE)
             ELSE expected
        ELSE compare_digest(expected.value, signature)

\* the signatures presented for verification: the one issued, or the one
\* issued with its first or last character replaced by another ASCII
\* character or by a character that is not ASCII; when none was issued, a
\* signature made with some key
Presentable(issued, content_id, date) ==
    LET sig == IF issued.raised
               THEN hmac_hexdigest(<<"k">>, Message(content_id, date))
               ELSE issued.value
    IN  {sig} \cup {ChangeChar(sig, i, by) :
                        i \in {1, SignatureLen}, by \in {"ascii", "non-ascii"}}

InitSignature ==
    /\ BotIdle
    /\ ScoreIdle
    /\ TagIdle
    /\ DigestIdle
    /\ FetchIdle
    /\ notion = [stage |-> "idle"]
    /\ client = [stage |-> "idle"]
    /\ signing \in [stage : {"input"}, content_id : Fields, date : Fields,
                    secret_key : SecretKeys, env_key : EnvKeys]

\* generate_signature(content_id, date, secret_key)
Generate ==
    /\ signing.stage = "input"
    /\ signing' = [stage |-> "issued",
                   content_id |-> signing.content_id,
                   date |-> signing.date,
                   secret_key |-> signing.secret_key,
                   env_key |-> signing.env_key,
                   issued |-> generate_signature(signing.content_id, signing.date,
                                                 signing.secret_key, signing.env_key)]
    /\ UNCHANGED <<botVars, scoreVars, tagVars, digestVars, fetchVars, notion, client>>

\* verify_signature(content_id, date, signature, secret_key) under the same
\* key, for any content id, any date and any presentable signature
Verify ==
    /\ signing.stage = "issued"
    /\ \E content_id \in Fields, date \in Fields,
          signature \in Presentable(signing.issued, signing.content_id, signing.date) :
         signing' = [stage |-> "verified",
                     content_id |-> signing.content_id,
                     date |-> signing.date,
                     secret_key |-> signing.secret_key,
                     env_key |-> signing.env_key,
                     issued |-> signing.issued,
                     presented |-> [content_id |-> content_id, date |-> date,
                                    signature |-> signature],
                     verdict |-> verify_signature(content_id, date, signature,
                                                  signing.secret_key, signing.env_key)]
    /\ UNCHANGED <<botVars, scoreVars, tagVars, digestVars, fetchVars, notion, client>>

NextSignature == Generate \/ Verify

SpecSignature == InitSignature /\ [][NextSignature]_vars

(***************************************************************************)
(*                                                                         *)
(*        GitHubTrendingClient(num_retries=n).fetch_trending(limit)        *)
(*                                                                         *)
(***************************************************************************)
MaxNumRetries == 5
MaxLimit == 3

\* github_trending.py lines 87-92: the decorator of _fetch_with_retry is
\* evaluated when the class is defined, with the constant of the module;
\* self.num_retries (line 62) is stored and never read
GitHubStopArgument(num_retries) == DEFAULT_NUM_RETRIES

InitClient ==
    /\ BotIdle
    /\ ScoreIdle
    /\ TagIdle
    /\ DigestIdle
    /\ FetchIdle
    /\ signing = [stage |-> "idle"]
    /\ notion = [stage |-> "idle"]
    /\ client \in [stage : {"fetching"}, num_retries : 1..MaxNumRetries,
                   limit : 0..MaxLimit, attempts : {0}, last : {None},
                   result : {<<>>}]

\* one attempt of _fetch_with_retry, lines 66-93: it returns the repos, or
\* raises; a retryable exception leads to another attempt until the
\* decorator stops, every other one and the last one are caught by
\* fetch_trending, which returns []
ClientAttempt ==
    /\ client.stage = "fetching"
    /\ \E exc \in FetchResults, answer \in Answers("github") :
         LET attempt_number == client.attempts + 1
             made == [client EXCEPT !.attempts = attempt_number, !.last = exc]
         IN  IF exc = "ok"
             THEN client' = [made EXCEPT !.stage = "returned",
                                         !.result = Head_n(Served("github", answer),
                                                            client.limit)]
             ELSE IF /\ retry_if_exception_type("github", exc)
                     /\ ~ stop_after_attempt(GitHubStopArgument(client.num_retries),
                                             attempt_number)
             THEN client' = made
             ELSE client' = [made EXCEPT !.stage = IF _fetch_catches(exc)
                                                   THEN "returned" ELSE "raised"]
    /\ UNCHANGED <<botVars, scoreVars, tagVars, digestVars, fetchVars, signing, notion>>

NextClient == ClientAttempt

SpecClient == InitClient /\ [][NextClient]_vars

(***************************************************************************)
(*                                                                         *)
(*     NotionSender: send_daily_digest, _build_blocks, _append_blocks      *)
(*                                                                         *)
(* digest_data is given by whether it has an insight, by the length of its *)
(* top3 list and by the number of GitHub items of all_scored_contents.     *)
(* Every item has a reason; the items at odd positions have a url.         *)
(***************************************************************************)
MaxTop == 80
MaxGroupItems == 34

\* notion_sender.py lines 19-20
MAX_BLOCKS_PER_REQUEST == 100
MAX_TOGGLE_CHILDREN == 50

PageUrl == "https://www.notion.so/page"

NotionItem(content_type, j) ==
    [type |-> content_type, title |-> j, reason |-> <<"r">>,
     url |-> IF j % 2 = 1 THEN <<"u">> ELSE <<>>]

NotionItems(content_type, n) == [j \in 1..n |-> NotionItem(content_type, j)]

DigestData(insight, t, k) ==
    [daily_insight |-> IF insight THEN <<"i">> ELSE <<>>,
     top3 |-> NotionItems("github", t),
     all_scored_contents |-> NotionItems("github", k)]

\* the digests of the model: a long top3 list with no or many items in
\* the full content, and every length of the full content
Digests ==
    {DigestData(insight, t, k) :
        insight \in BOOLEAN, t \in 0..MaxTop, k \in {0, MaxGroupItems}}
      \cup {DigestData(insight, 0, k) : insight \in BOOLEAN, k \in 0..MaxGroupItems}

\* a block: its type, the section and the item it shows, the part of the
\* item, and its children
Block(type, section, item, part, children) ==
    [type |-> type, section |-> section, item |-> item, part |-> part,
     children |-> children]

\* lines 309-353: a heading, the reason if there is one, the link if
\* there is a url
RECURSIVE TopBlocks(_, _)
TopBlocks(top_items, j) ==
    IF j > Len(top_items) THEN <<>>
    ELSE <<Block("heading_3", "top3", j, "title", <<>>)>>
          \o (IF top_items[j].reason # <<>>
              THEN <<Block("paragraph", "top3", j, "reason", <<>>)>> ELSE <<>>)
          \o (IF top_items[j].url # <<>>
              THEN <<Block("paragraph", "top3", j, "url", <<>>)>> ELSE <<>>)
          \o TopBlocks(top_items, j + 1)

\* lines 388-431: a paragraph per item, and a second one if it has a url
RECURSIVE ToggleBlocks(_, _, _)
ToggleBlocks(section, items, j) ==
    IF j > Len(items) THEN <<>>
    ELSE <<Block("paragraph", section, j, "text", <<>>)>>
          \o (IF items[j].url # <<>>
              THEN <<Block("paragraph", section, j, "url", <<>>)>> ELSE <<>>)
          \o ToggleBlocks(section, items, j + 1)

MutToggleChildren(toggle_blocks) == toggle_blocks

\* line 445: toggle_blocks[:MAX_TOGGLE_CHILDREN]
ToggleChildren(toggle_blocks) == Head_n(toggle_blocks, MAX_TOGGLE_CHILDREN)

\* lines 452-487: the groups in their fixed order, the empty ones removed
GroupNames == <<"GitHub", "HuggingFace", "arXiv", "Blog", "Twitter", "YouTube">>

GroupTypes(type_name) ==
    IF type_name = "GitHub" THEN {"github"}
    ELSE IF type_name = "HuggingFace" THEN {"hf_model", "hf_dataset", "hf_space"}
    ELSE IF type_name = "arXiv" THEN {"arxiv"}
    ELSE IF type_name = "Blog" THEN {"blog"}
    ELSE IF type_name = "Twitter" THEN {"twitter"}
    ELSE {"youtube"}

_group_by_type(all_contents_, type_name) ==
    SelectSeq(all_contents_, LAMBDA c : c.type \in GroupTypes(type_name))

\* lines 381-448: one toggle per group that is not empty
RECURSIVE Toggles(_, _)
Toggles(all_contents_, g) ==
    IF g > Len(GroupNames) THEN <<>>
    ELSE LET items == _group_by_type(all_contents_, GroupNames[g])
         IN  (IF items = <<>> THEN <<>>
              ELSE <<Block("toggle", GroupNames[g], Len(items), "toggle",
                           ToggleChildren(ToggleBlocks(GroupNames[g], items, 1)))>>)
              \o Toggles(all_contents_, g + 1)

\* lines 256-450
_build_blocks(digest_data) ==
    <<Block("heading_2", "insight", 0, "heading", <<>>)>>
      \o (IF digest_data.daily_insight # <<>>
          THEN <<Block("paragraph", "insight", 0, "text", <<>>)>> ELSE <<>>)
      \o <<Block("divider", "insight", 0, "divider", <<>>)>>
      \o <<Block("heading_2", "top3", 0, "heading", <<>>)>>
      \o TopBlocks(digest_data.top3, 1)
      \o <<Block("divider", "top3", 0, "divider", <<>>)>>
      \o <<Block("heading_2", "full", 0, "heading", <<>>)>>
      \o Toggles(digest_data.all_scored_contents, 1)

MutBatch(blocks, i) ==
    SubSeq(blocks, i + 1, Min(i + MAX_BLOCKS_PER_REQUEST + 1, Len(blocks)))

\* line 512: blocks[i : i + MAX_BLOCKS_PER_REQUEST]
Batch(blocks, i) ==
    SubSeq(blocks, i + 1, Min(i + MAX_BLOCKS_PER_REQUEST, Len(blocks)))

\* what a call of the Notion API does: it returns, or raises one of the
\* errors of notion_client
NotionApi == {"ok", "APIResponseError", "HTTPResponseError", "RequestTimeoutError"}

\* lines 139-141: `except APIResponseError` around _append_blocks
_append_catches(exc) == exc = "APIResponseError"

InitNotion ==
    /\ BotIdle
    /\ ScoreIdle
    /\ TagIdle
    /\ DigestIdle
    /\ FetchIdle
    /\ signing = [stage |-> "idle"]
    /\ client = [stage |-> "idle"]
    /\ notion \in [stage : {"start"}, digest_data : Digests, created : {FALSE},
                   blocks : {<<>>}, i : {0}, calls : {<<>>}, exc : {None},
                   result : {None}]

\* lines 124-135: the page is created, or the error of the call leaves
\* send_daily_digest; then the blocks are built
CreatePage ==
    /\ notion.stage = "start"
    /\ \E api \in NotionApi :
         IF api = "ok"
         THEN LET blocks == _build_blocks(notion.digest_data)
              IN  notion' = [notion EXCEPT
                      !.created = TRUE,
                      !.blocks = blocks,
                      !.stage = IF blocks = <<>> THEN "returned" ELSE "appending",
                      !.result = IF blocks = <<>> THEN PageUrl ELSE None]
         ELSE notion' = [notion EXCEPT !.stage = "raised", !.exc = api]
    /\ UNCHANGED <<botVars, scoreVars, tagVars, digestVars, fetchVars, signing, client>>

\* lines 136-143 and 511-513: one request of the loop of _append_blocks.
\* After the last one, and after an APIResponseError, send_daily_digest
\* returns the url of the page; every other error leaves it.
AppendRequest ==
    /\ notion.stage = "appending"
    /\ \E api \in NotionApi :
         LET batch == Batch(notion.blocks, notion.i)
             next_i == notion.i + MAX_BLOCKS_PER_REQUEST
             called == [notion EXCEPT !.calls = Append(notion.calls, batch)]
         IN  IF api = "ok"
             THEN IF next_i < Len(notion.blocks)
                  THEN notion' = [called EXCEPT !.i = next_i]
                  ELSE notion' = [called EXCEPT !.i = next_i, !.stage = "returned",
                                                !.result = PageUrl]
             ELSE IF _append_catches(api)
             THEN notion' = [called EXCEPT !.stage = "returned", !.exc = api,
                                           !.result = PageUrl]
             ELSE notion' = [called EXCEPT !.stage = "raised", !.exc = api]
    /\ UNCHANGED <<botVars, scoreVars, tagVars, digestVars, fetchVars, signing, client>>

NextNotion == CreatePage \/ AppendRequest

SpecNotion == InitNotion /\ [][NextNotion]_vars

(***************************************************************************)
(*                     Properties of the `bot` command                     *)
(***************************************************************************)

\* out is inp with some rows left out: the rows of out are rows of inp, in
\* the order of inp
IsSubsequence(out, inp) ==
    \E f \in [1..Len(out) -> 1..Len(inp)] :
        /\ \A j \in 1..Len(out) : out[j] = inp[f[j]]
        /\ \A j, k \in 1..Len(out) : j < k => f[j] < f[k]

\* C1: _keep_only_new_abstracts(abstracts, doc_store) returns exactly the
\* rows of the input, in input order, whose arxiv id is not a key of the
\* store: every output row is an input row, no output id is in the store, no
\* input row with an absent id is dropped, and with an empty store the
\* output equals the input.
KeepOnlyNewIsExactFilter ==
    Len(abstracts) > 0 =>
        /\ IsSubsequence(filtered_abstracts, abstracts)
        /\ \A j \in 1..Len(filtered_abstracts) :
               filtered_abstracts[j].arxiv \notin DOMAIN store0
        /\ Len(filtered_abstracts) =
               Cardinality({i \in 1..Len(abstracts) : abstracts[i].arxiv \notin DOMAIN store0})
        /\ (DOMAIN store0 = {} => filtered_abstracts = abstracts)

\* C1 witness: scenario B, the store holds 2401.00001 and the candidates are
\* 2401.00001, 2401.00002: only the second is kept.
KeepOnlyNewScenarioB ==
    /\ pc = "filtered"
    /\ DOMAIN store0 = {"2401.00001"}
    /\ Len(abstracts) = 2
    /\ abstracts[1].arxiv = "2401.00001"
    /\ abstracts[2].arxiv = "2401.00002"
    /\ filtered_abstracts = <<abstracts[2]>>

\* C2: a paper whose tweet was really sent in one run is in the store from the
\* moment of the send, in that run and ever after, and no later run tweets
\* it again.  Violated in the state after the paper tweet of send_tweets
\* (line 123) and before the store write (line 136): the sleep and the url
\* reply of lines 133-134 come between the two.
NeverTweetedAgain ==
    /\ (tweeted \cup PaperIds(sent)) \subseteq DOMAIN doc_store
    /\ PaperIds(sent) \cap tweeted = {}

\* C3: in the loop of send_tweets the entry {tweet_id, tweet_url, title,
\* published_on} is written under s["arxiv"], at the end of the iteration,
\* if and only if the send for s returned a url; a send that returned None
\* leaves the store as it was, and no other key is written or removed, in
\* the loop or anywhere else.
StoreWrittenIffSendSucceeded ==
    [][ IF pc = "posted"
        THEN LET s == summaries[todo]
             IN  /\ this.url # None =>
                       /\ s.arxiv \in DOMAIN doc_store'
                       /\ doc_store'[s.arxiv] = [tweet_id     |-> this.id,
                                                 tweet_url    |-> this.url,
                                                 title        |-> s.title,
                                                 published_on |-> s.published_on]
                 /\ this.url = None =>
                       /\ (s.arxiv \in DOMAIN doc_store') = (s.arxiv \in DOMAIN doc_store)
                       /\ s.arxiv \in DOMAIN doc_store => doc_store'[s.arxiv] = doc_store[s.arxiv]
                 /\ \A k \in ((DOMAIN doc_store) \cup (DOMAIN doc_store')) \ {s.arxiv} :
                       /\ k \in DOMAIN doc_store
                       /\ k \in DOMAIN doc_store'
                       /\ doc_store'[k] = doc_store[k]
        ELSE doc_store' = doc_store ]_vars

\* C3 witness: a run of two papers has ended; the first send succeeded and
\* its entry is new in the store, the second returned None and its id has
\* no entry.
OneSentOneFailed ==
    /\ pc = "returned"
    /\ Len(summaries) = 2
    /\ this.url = None
    /\ summaries[1].arxiv \notin DOMAIN doc_store
    /\ summaries[2].arxiv \in (DOMAIN doc_store) \ (DOMAIN store0)

\* C4 (as claimed): a run with --dry sends no real tweet and leaves the
\* Document Store equal to the store before the run.
DryRunHasNoSideEffect ==
    dry => (sent = <<>> /\ doc_store = store0)

\* C5: if generate_bot_summary returns None the run ends in FatalError
\* with no tweet posted and the store unchanged.
FatalBeforeAnySideEffect ==
    pc = "fatal" => (sent = <<>> /\ doc_store = store0)

\* C5 witness: a run with summaries to send has raised FatalError.
FatalReached ==
    /\ pc = "fatal"
    /\ ~ dry
    /\ Len(summaries) > 0


(***************************************************************************)
(*                      Properties of _fallback_scoring                    *)
(***************************************************************************)

\* C9: _fallback_scoring yields an integer score s with 1 <= s <= 10 for
\* every item, for every content type and every value of its stars field:
\* negative, zero, None, missing.
FallbackScoreInRange ==
    outcome.status = "returned" =>
        \A i \in 1..Len(outcome.value) :
            /\ outcome.value[i].score.kind = "int"
            /\ outcome.value[i].score.int >= 1
            /\ outcome.value[i].score.int <= 10

\* C9 witness: a list with a negative engagement and an absent one (None or
\* no key) on GitHub items has been scored.
FallbackScoredOddStars ==
    /\ outcome.status = "returned"
    /\ Len(contents) = 2
    /\ contents[1].type = "github" /\ contents[1].stars.kind = "int"
    /\ contents[1].stars.int < 0
    /\ contents[2].type = "github" /\ contents[2].stars.kind \in {"none", "missing"}
    /\ outcome.value[1].score = PyInt(5)
    /\ outcome.value[2].score = PyInt(5)

\* the score of section 4.2 of the specification
Clamp(n, lo, hi) == IF n < lo THEN lo ELSE IF n > hi THEN hi ELSE n

RuleScore(item) ==
    LET stars == StarsOrZero(item)
    IN  Clamp(5 + (IF item.type = "github" /\ stars > 500 THEN 3 ELSE 0)
                + (IF item.type = "github" /\ 100 < stars /\ stars <= 500 THEN 1 ELSE 0)
                + (IF item.type = "arxiv" THEN 1 ELSE 0),
              1, 10)

\* C10: the fallback score is 5, plus 3 for a GitHub item above 500 stars,
\* plus 1 for a GitHub item with 100 < stars <= 500, plus 1 for an arXiv
\* item, clamped to [1,10]; exactly 100 and exactly 500 stars fall in the
\* lower band; scenario A scores [5,8,6,6,6].
FallbackScoreFollowsRule ==
    outcome.status = "returned" =>
        /\ Len(outcome.value) = Len(contents)
        /\ \A i \in 1..Len(contents) :
              /\ outcome.value[i].score = PyInt(RuleScore(contents[i]))
              /\ (contents[i].type = "github" /\ contents[i].stars = PyInt(100))
                    => outcome.value[i].score = PyInt(5)
              /\ (contents[i].type = "github" /\ contents[i].stars = PyInt(500))
                    => outcome.value[i].score = PyInt(6)
        /\ contents = ScenarioA =>
              [i \in 1..5 |-> outcome.value[i].score.int] = <<5, 8, 6, 6, 6>>

\* C10 witness: scenario A has been scored.
ScenarioAScored ==
    /\ outcome.status = "returned"
    /\ contents = ScenarioA
    /\ outcome.value[2].score = PyInt(8)

\* the tags of the scored items, in order
TagsOf(items) == [i \in 1..Len(items) |-> items[i].tag]

\* C12, as stated: the fallback scoring of scenario A (GitHub items with 10,
\* 600 and 150 stars, then two arXiv items) tags them low, top, middle,
\* middle, middle.
ScenarioATagsFirstIsLow ==
    (outcome.status = "returned" /\ contents = ScenarioA) =>
        TagsOf(outcome.value) =
            <<TagQuickGlance, TagMustRead, TagDeepDive, TagDeepDive, TagDeepDive>>

\* C12, amended: the fallback scoring of scenario A tags the items middle,
\* top, middle, middle, middle: the first item (GitHub, 10 stars) has score
\* 5 and is tagged middle tier.
ScenarioATagsFirstIsMiddle ==
    (outcome.status = "returned" /\ contents = ScenarioA) =>
        TagsOf(outcome.value) =
            <<TagDeepDive, TagMustRead, TagDeepDive, TagDeepDive, TagDeepDive>>

\* C12 witness: scenario A has been tagged, its first item with score 5.
ScenarioATagged ==
    /\ outcome.status = "returned"
    /\ outcome.path = "fallback"
    /\ contents = ScenarioA
    /\ outcome.value[1].score = PyInt(5)
    /\ outcome.value[1].tag \in TierTags

\* the three tiers, lowest first
TierRank(tag) ==
    IF tag = TagQuickGlance THEN 1 ELSE IF tag = TagDeepDive THEN 2 ELSE 3

\* C11: on the fallback path the tag is a function of the score alone and
\* is monotonic in it: a score of 8 or more gives the top tier, 5 to 7 the
\* middle tier, less than 5 the low tier, for every integer score 1..10.
TagIsMonotonicFunctionOfScore ==
    tagging.done =>
        /\ tagging.a \in 8..10 => tagging.tag_a = TagMustRead
        /\ tagging.a \in 5..7 => tagging.tag_a = TagDeepDive
        /\ tagging.a \in 1..4 => tagging.tag_a = TagQuickGlance
        /\ tagging.a = tagging.b => tagging.tag_a = tagging.tag_b
        /\ tagging.a <= tagging.b => TierRank(tagging.tag_a) <= TierRank(tagging.tag_b)

\* C11 witness: the tags of the scores 4 and 8, one on each side of the
\* middle tier, have been computed.
TaggedAcrossBothThresholds ==
    /\ tagging.done
    /\ tagging.a = 4 /\ tagging.tag_a = TagQuickGlance
    /\ tagging.b = 8 /\ tagging.tag_b = TagMustRead


(***************************************************************************)
(*                   Properties of score_and_tag_contents                  *)
(***************************************************************************)

\* the LLM raised, returned None, returned a text with no JSON in it, or a
\* JSON document that is not an array of Len(contents) objects
LlmOutputUnusable ==
    \/ llm.kind \in {"raises", "none"}
    \/ /\ llm.kind = "text"
       /\ \/ ~ Contains(llm.pieces, Payload)
          \/ llm.json.type # "list"
          \/ Len(llm.json.elems) # Len(contents)
          \/ \E i \in 1..Len(llm.json.elems) : ~ llm.json.elems[i].isobj

\* C6: for a non-empty list score_and_tag_contents never raises, whatever
\* the LLM call does; when the call raises, returns None, returns non-JSON
\* text, JSON that is not a list, a list of the wrong length or a list with
\* an element that is not an object, the result is that of
\* _fallback_scoring on the same input.
ScoringDegradesToFallback ==
    (contents # <<>> /\ outcome.status # "idle") =>
        /\ outcome.status = "returned"
        /\ LlmOutputUnusable =>
              /\ outcome.path = "fallback"
              /\ outcome.value = _fallback_scoring(contents)

\* C6 witness: the LLM answered a fenced JSON array of the right length
\* whose second element is not an object, and the fallback result came back.
FellBackOnNonObjectElement ==
    /\ Len(contents) = 2
    /\ llm.kind = "text"
    /\ llm.pieces = <<FenceJson, Payload, Fence>>
    /\ llm.json.type = "list"
    /\ Len(llm.json.elems) = 2
    /\ llm.json.elems[1].isobj
    /\ ~ llm.json.elems[2].isobj
    /\ outcome.status = "returned"
    /\ outcome.path = "fallback"

\* C7 (as claimed): every item returned by score_and_tag_contents, on the
\* LLM path and on the fallback path, has an integer score in 1..10 and one
\* of the three tier tags.
ScoredItemsWellFormed ==
    outcome.status = "returned" =>
        \A i \in 1..Len(outcome.value) :
            /\ outcome.value[i].score.kind = "int"
            /\ outcome.value[i].score.int \in 1..10
            /\ outcome.value[i].tag \in TierTags

\* C8 (as claimed): the LLM's scores are applied only when the parsed
\* response is an array of the input's length whose entry at position i
\* carries index i.
LlmScoresOnlyWhenIndexAligned ==
    (outcome.status = "returned" /\ outcome.path = "llm") =>
        /\ llm.json.type = "list"
        /\ Len(llm.json.elems) = Len(contents)
        /\ \A i \in 1..Len(contents) : llm.json.elems[i].index = PyInt(i)

\* the keys that scoring adds to an item
ScoringKeys == {"score", "tag", "reason"}

\* out is inp with the scoring keys set and nothing else touched
ExtendsOnlyWithScoringKeys(out, inp) ==
    /\ DOMAIN out = DOMAIN inp \cup ScoringKeys
    /\ \A k \in DOMAIN inp \ ScoringKeys : out[k] = inp[k]

\* C13: score_and_tag_contents and _fallback_scoring leave the input list
\* and every input dict unchanged, and return a list of the same length in
\* which element i is input element i extended only with the keys score,
\* tag and reason.
ScoringLeavesInputUnchanged ==
    [][(outcome.status = "idle" /\ outcome'.status = "returned") =>
          /\ contents' = contents
          /\ Len(outcome'.value) = Len(contents)
          /\ \A i \in 1..Len(contents) :
                ExtendsOnlyWithScoringKeys(outcome'.value[i], contents[i])]_vars

\* C13 witness: a list of two items has been scored from the reply of the
\* LLM; the returned dicts have a score and the dicts passed in have none.
ScoredTwoItemsByLlm ==
    /\ outcome.status = "returned"
    /\ outcome.path = "llm"
    /\ Len(contents) = 2
    /\ Len(outcome.value) = 2
    /\ "score" \in DOMAIN outcome.value[1]
    /\ "score" \notin DOMAIN contents[1]


(***************************************************************************)
(*                        Properties of daily_digest                       *)
(***************************************************************************)

\* the run has passed the assembly of lines 432-498
Assembled == dpc \in {"assembled", "insight", "emailed", "done"}

\* position of the item with this title in a list where titles are unique
IndexOf(items, title) == CHOOSE i \in 1..Len(items) : items[i].title = title

ScoreOf(title) == scored_contents[IndexOf(scored_contents, title)].score.int

\* a comes before b in the ranking: higher score, or equal score and
\* earlier in the list the scoring engine returned
RanksBefore(a, b) ==
    \/ ScoreOf(a) > ScoreOf(b)
    \/ /\ ScoreOf(a) = ScoreOf(b)
       /\ IndexOf(scored_contents, a) < IndexOf(scored_contents, b)

\* C14: the global ranking is a stable sort of the scored items by score
\* descending: the ranked list holds the scored items, scores are
\* non-increasing along it, two items with equal score keep their input
\* order, and global_top3 is its first min(3, N) items.
GlobalRankingIsStableSort ==
    Assembled =>
        /\ Len(tagged_contents) = Len(scored_contents)
        /\ \A i \in 1..Len(scored_contents) :
              \E j \in 1..Len(tagged_contents) : tagged_contents[j] = scored_contents[i]
        /\ \A i, j \in 1..Len(tagged_contents) :
              i < j => /\ tagged_contents[i].score.int >= tagged_contents[j].score.int
                       /\ RanksBefore(tagged_contents[i].title, tagged_contents[j].title)
        /\ global_top3 = SubSeq(tagged_contents, 1, Min(3, Len(tagged_contents)))

\* C14 witness: four items of two content types have been ranked, the sort
\* moved some of them, two neighbours of the ranking have the same score
\* and the fourth item is left out of global_top3.
RankedFourWithTie ==
    /\ Assembled
    /\ Len(tagged_contents) = 4
    /\ tagged_contents # scored_contents
    /\ tagged_contents[2].score = tagged_contents[3].score
    /\ tagged_contents[2].type # tagged_contents[3].type
    /\ Len(global_top3) = 3

\* the titles of the objects of a list
Titles(objs) == [i \in 1..Len(objs) |-> objs[i].title]

\* the titles of the scored items of one content type, in input order
TitlesOfType(t) == Titles(SelectSeq(scored_contents, LAMBDA c : c.type = t))

InList(title, titles) == \E i \in 1..Len(titles) : titles[i] = title

\* C15: each per-category top-3 list has at most 3 items, all of the
\* category's type, and they are the category's highest-scored items in
\* stable score-descending order; a category with no item gets an empty
\* list; four GitHub items scored [9,3,7,9] give [item0, item3, item2].
CategoryTop3AreHighestScored ==
    Assembled =>
        /\ \A t \in TypeSet :
              LET chosen == Titles(top3[t])
                  all    == TitlesOfType(t)
              IN  /\ Len(chosen) = Min(3, Len(all))
                  /\ \A k \in 1..Len(chosen) : InList(chosen[k], all)
                  /\ \A k, l \in 1..Len(chosen) :
                        k < l => RanksBefore(chosen[k], chosen[l])
                  /\ \A i \in 1..Len(all) :
                        ~ InList(all[i], chosen) =>
                            \A k \in 1..Len(chosen) : RanksBefore(chosen[k], all[i])
        /\ ( /\ Len(scored_contents) = 4
             /\ \A i \in 1..4 : scored_contents[i].type = "github"
             /\ [i \in 1..4 |-> scored_contents[i].score.int] = <<9, 3, 7, 9>> )
              => Titles(top3["github"]) =
                    <<scored_contents[1].title, scored_contents[4].title,
                      scored_contents[3].title>>

\* C15 witness: four GitHub items have been scored [9,3,7,9] and the GitHub
\* list has been cut to three.
ScenarioCAssembled ==
    /\ Assembled
    /\ Len(sources["github"]) = 4
    /\ Len(scored_contents) = 4
    /\ [i \in 1..4 |-> scored_contents[i].score.int] = <<9, 3, 7, 9>>
    /\ Len(top3["github"]) = 3

\* C16: when every source returned an empty list the assembly does not
\* raise, global_top3, every category list and the scored set are empty,
\* and the scoring engine is not called.
NoContentAssemblesEmpty ==
    (sources = NoSources /\ dpc # "merged") =>
        /\ dpc # "raised"
        /\ global_top3 = <<>>
        /\ \A t \in TypeSet : top3[t] = <<>>
        /\ tagged_contents = <<>>
        /\ scoring_calls = 0

\* C16 witness: a run with no content at all has passed the assembly.
AssembledNothing ==
    /\ sources = NoSources
    /\ all_contents = <<>>
    /\ dpc = "assembled"

\* C17: a run that fetched zero content from every source ends without
\* attempting to publish: a daily-digest run that is not dry attempts
\* neither an email send nor a Notion write.
ZeroContentRunNeverPublishes ==
    (sources = NoSources /\ ~ ddry) => attempts = <<>>

\* C18: generate_daily_insight never returns an empty string: an empty or
\* whitespace-only reply of the LLM, like a raising call, gives one of the
\* fixed sentences.
InsightIsNeverEmpty ==
    dpc \in {"insight", "emailed", "done"} => daily_insight # <<>>


(***************************************************************************)
(*                  Properties of the publishing step                      *)
(***************************************************************************)

\* the run has ended, by a return or by an exception
RunEnded == dpc \in {"done", "raised"}

\* a write to Notion was attempted
NotionAttempted == \E i \in 1..Len(attempts) : attempts[i].channel = "notion"

\* C21: in a run that is not dry, with an email sender configured and
\* Notion enabled, the Notion write is attempted whether the email send
\* succeeded or failed, no exception leaves the run, and the outcome of the
\* email stays as it was obtained.
ChannelsFailIndependently ==
    (RunEnded /\ ~ ddry /\ ChooseSender(environ) # None /\ environ.notion = "on") =>
        /\ NotionAttempted
        /\ error = None
        /\ Len(attempts) = 2
        /\ attempts[1].channel = ChooseSender(environ)

\* C22: in a run that is not dry, where the email configuration is missing
\* and Notion is enabled with its credentials, the Notion write is still
\* attempted.
MissingEmailConfigStillWritesNotion ==
    (RunEnded /\ ~ ddry /\ ChooseSender(environ) = None /\ environ.notion = "on") =>
        NotionAttempted

\* C23: a dry run completes without error and attempts neither an email
\* send nor a Notion write, whatever content was fetched.
DryRunCompletesWithoutWrite ==
    (ddry /\ dpc # "insight") =>
        /\ dpc = "done"
        /\ error = None
        /\ attempts = <<>>

\* C24: for whichever sender the run selects, the send_digest call returns
\* True or False and never raises into daily_digest.
SendDigestReturnsBoolean ==
    (~ ddry /\ dpc # "insight" /\ ChooseSender(environ) # None) =>
        /\ error # "TypeError"
        /\ attempts # <<>>
        /\ attempts[1].channel = ChooseSender(environ)
        /\ attempts[1].ok \in BOOLEAN


(***************************************************************************)
(*                  Properties of the fetches of daily_digest              *)
(***************************************************************************)

\* the fetch of this source returned a result
Succeeded(t) ==
    \E i \in 1..Len(fetch_log) : fetch_log[i] = [source |-> t, status |-> "ok"]

\* the posts the feeds of ok_feeds hand over, feed after feed from feed f on
RECURSIVE PostsOfFeeds(_, _)
PostsOfFeeds(ok_feeds, f) ==
    IF f \notin TECH_BLOG_FEEDS THEN <<>>
    ELSE (IF f \in ok_feeds THEN recent_posts(FeedEntries(f)) ELSE <<>>)
             \o PostsOfFeeds(ok_feeds, f + 1)

\* the feeds whose fetch makes a difference to the result
FeedsWithPosts == {f \in TECH_BLOG_FEEDS : recent_posts(FeedEntries(f)) # <<>>}

\* the list is what a source that succeeded hands over; for the blogs, the
\* recent posts of some of the feeds, newest first
HandedOver(t, items) ==
    IF t = "blog"
    THEN \E ok_feeds \in SUBSET FeedsWithPosts :
            items = SortByDate(PostsOfFeeds(ok_feeds, 1))
    ELSE \E answer \in Answers(t) : items = Served(t, answer)

\* C19: the sources are fetched one after another in the fixed order
\* GitHub, HuggingFace, arXiv, blogs, Twitter, YouTube; whatever subset of
\* them fails, the run is never aborted, a failed source contributes an
\* empty list, every remaining source is still fetched, and the run
\* reaches scoring with exactly the items of the sources that succeeded.
FailedSourcesNeverAbortTheRun ==
    /\ dpc # "aborted"
    /\ \A i \in 1..Len(fetch_log) :
          /\ fetch_log[i].source = DigestTypes[i]
          /\ fetch_log[i].status # "ok" => sources[DigestTypes[i]] = <<>>
          /\ fetch_log[i].status = "ok" =>
                HandedOver(DigestTypes[i], sources[DigestTypes[i]])
    /\ dpc = "merged" =>
          /\ Len(fetch_log) = Len(DigestTypes)
          /\ \A i \in 1..Len(all_contents) : all_contents[i].type \in TypeSet
          /\ \A t \in TypeSet :
                Titles(SelectSeq(all_contents, LAMBDA c : c.type = t)) =
                    Titles(IF Succeeded(t) THEN sources[t] ELSE <<>>)

\* C19 witness: GitHub and arXiv failed, the blogs and YouTube were fetched
\* after them and handed over items, a feed of the blogs having failed and
\* YouTube having handed over the three most viewed of its videos, the
\* fetch of the models succeeded with nothing, and the run has merged what
\* it got.
MergedAfterTwoFailures ==
    /\ dpc = "merged"
    /\ fetch_log[1] = [source |-> "github", status |-> "failed"]
    /\ fetch_log[5] = [source |-> "arxiv", status |-> "failed"]
    /\ Succeeded("blog")
    /\ Titles(sources["blog"]) = Titles(recent_posts(FeedEntries(2)))
    /\ Succeeded("youtube")
    /\ sources["youtube"] = Served("youtube", Answered("youtube"))
    /\ Len(sources["youtube"]) = DEFAULT_MAX_VIDEOS_PER_CHANNEL
    /\ Succeeded("hf_model")
    /\ sources["hf_model"] = <<>>
    /\ Len(all_contents) >= 4

\* C20 (as claimed): the fetch of every source ends after at most 3
\* attempts: an attempt that fails is followed by another one only while
\* fewer than 3 have been made, the third failure ends the fetch with an
\* empty result for the source, and an attempt that succeeds ends the
\* fetch with its result.
FetchAttemptsAreBounded ==
    [][(dpc = "fetching" /\ fetch_ix <= Len(DigestTypes)) =>
          LET t == DigestTypes[fetch_ix]
          IN  /\ attempt + 1 <= 3
              /\ attempt = 2 => fetch_ix' = fetch_ix + 1
              /\ fetch_ix' = fetch_ix =>
                    /\ attempt' = attempt + 1
                    /\ sources' = sources
              /\ fetch_ix' = fetch_ix + 1 =>
                    LET e == fetch_log'[Len(fetch_log')]
                    IN  /\ attempt' = 0
                        /\ e.source = t
                        /\ e.status = "ok" =>
                              \E answer \in Answers(t) : sources'[t] = Served(t, answer)
                        /\ e.status # "ok" => sources'[t] = <<>>]_vars

\* C20 (amended): every retried call ends after at most 3 attempts: an
\* attempt that fails is followed by another one only while fewer than 3
\* have been made, and an attempt that succeeds ends the call with its
\* result.  For every source but the blogs the call is the fetch of the
\* source, and the third failure ends it with an empty result for the
\* source.  For the blogs the call is the fetch of one of the ten feeds:
\* the third failure leaves the posts gathered so far as they are, the
\* next feed is fetched, and after the last feed the source hands over the
\* posts of the feeds that succeeded.
RetriedCallsAreBounded ==
    [][(dpc = "fetching" /\ fetch_ix <= Len(DigestTypes)) =>
          LET t == DigestTypes[fetch_ix]
              call_ends == fetch_ix' # fetch_ix \/ feed' # feed
              kept == {all_posts, all_posts \o recent_posts(FeedEntries(feed))}
          IN  /\ attempt + 1 <= 3
              /\ attempt = 2 => call_ends
              /\ ~ call_ends =>
                    /\ attempt' = attempt + 1
                    /\ sources' = sources
                    /\ all_posts' = all_posts
              /\ call_ends => attempt' = 0
              /\ (call_ends /\ t # "blog") =>
                    LET e == fetch_log'[Len(fetch_log')]
                    IN  /\ fetch_ix' = fetch_ix + 1
                        /\ e.source = t
                        /\ e.status = "ok" =>
                              \E answer \in Answers(t) : sources'[t] = Served(t, answer)
                        /\ e.status # "ok" => sources'[t] = <<>>
              /\ (call_ends /\ t = "blog") =>
                    /\ feed \in TECH_BLOG_FEEDS
                    /\ fetch_ix' = fetch_ix <=> feed + 1 \in TECH_BLOG_FEEDS
                    /\ fetch_ix' = fetch_ix => feed' = feed + 1 /\ sources' = sources
                    /\ fetch_ix' # fetch_ix => fetch_ix' = fetch_ix + 1
                    /\ IF fetch_ix' = fetch_ix
                       THEN all_posts' \in kept
                       ELSE \E posts \in kept : sources'[t] = SortByDate(posts)]_vars

\* C20 witness: GitHub was fetched; of the blogs, the first feed failed
\* three times and the second feed handed over its post, and the feed now
\* up has failed twice.
FeedFailedOthersServed ==
    /\ dpc = "fetching"
    /\ DigestTypes[fetch_ix] = "blog"
    /\ Succeeded("github")
    /\ sources["github"] = Answered("github")
    /\ feed = 3
    /\ all_posts = recent_posts(FeedEntries(2))
    /\ attempt = 2

(***************************************************************************)
(*                      Properties of signature.py                         *)
(***************************************************************************)

\* a verification has been made with a key available
VerifiedWithKey ==
    /\ signing.stage = "verified"
    /\ EffectiveKey(signing.secret_key, signing.env_key) # <<>>

SameContent == signing.presented.content_id = signing.content_id
SameDate == signing.presented.date = signing.date
SameSignature == signing.presented.signature = signing.issued.value

\* the verification returned this value
Verdict(value) ==
    /\ ~ signing.verdict.raised
    /\ signing.verdict.value = value

\* C25: the signature generated for a content id, a date and a key
\* verifies for them; with only the content id changed, only the date
\* changed, or a character of the signature changed, the verification
\* returns False; with no key available it returns False and does not raise.
SignatureRoundTrip ==
    /\ VerifiedWithKey =>
          /\ (SameContent /\ SameDate /\ SameSignature) => Verdict(TRUE)
          /\ (~ SameContent /\ SameDate /\ SameSignature) => Verdict(FALSE)
          /\ (SameContent /\ ~ SameDate /\ SameSignature) => Verdict(FALSE)
          /\ (SameContent /\ SameDate /\ ~ SameSignature) => Verdict(FALSE)
    /\ (signing.stage = "verified" /\ ~ VerifiedWithKey) => Verdict(FALSE)

\* the part of C25 that the code satisfies: the same statement for
\* signatures of ASCII characters only
SignatureRoundTripAscii ==
    (signing.stage = "verified" /\ IsAscii(signing.presented.signature)) =>
        SignatureRoundTrip

\* C30: under a fixed key a signature issued for one pair of content id and
\* date does not verify for a different pair, also when the content id or
\* the date contains the separator.
SignatureBindsThePair ==
    (VerifiedWithKey /\ SameSignature /\ ~ (SameContent /\ SameDate)) =>
        Verdict(FALSE)


(***************************************************************************)
(*                 Properties of GitHubTrendingClient                      *)
(***************************************************************************)

\* C27: the num_retries argument of the constructor is the number of fetch
\* attempts: a client built with num_retries = n attempts the fetch at most
\* n times, also when every attempt fails with a retryable error.
AttemptsBoundedByNumRetries ==
    client.stage # "idle" => client.attempts <= client.num_retries


(***************************************************************************)
(*                      Properties of send_tweets                          *)
(***************************************************************************)

\* the arxiv ids of the paper tweets posted, in the order of posting
PostedPapers ==
    LET papers == SelectSeq(sent, LAMBDA e : e.kind = "paper")
    IN  [i \in 1..Len(papers) |-> papers[i].arxiv]

\* the arxiv ids of summaries[::-1]
ReversedSummaries ==
    [i \in 1..Len(summaries) |-> summaries[Len(summaries) + 1 - i].arxiv]

\* C29: the summary tweet is sent first and every paper tweet is sent after
\* it as a reply to it, in the reverse order of the summaries list; no
\* paper tweet is posted unthreaded, also when the send of the summary
\* tweet fails and returns no id.
PaperTweetsAreThreaded ==
    /\ IsSubsequence(PostedPapers, ReversedSummaries)
    /\ \A i \in 1..Len(sent) :
          sent[i].kind = "paper" =>
              /\ sent[1].kind = "summary"
              /\ sent[i].in_reply_to = sent[1].id
              /\ sent[i].in_reply_to # NoId

\* the part of C29 that the code satisfies: when the summary tweet was
\* posted, the paper tweets follow it as replies to it in reverse order
PaperTweetsFollowPostedSummary ==
    (sent # <<>> /\ sent[1].kind = "summary") => PaperTweetsAreThreaded


(***************************************************************************)
(*                      Properties of NotionSender                         *)
(***************************************************************************)

RECURSIVE Concat(_, _)
Concat(batches, n) ==
    IF n = 0 THEN <<>> ELSE Concat(batches, n - 1) \o batches[n]

\* the blocks sent so far, in the order of the requests
BlocksSent == Concat(notion.calls, Len(notion.calls))

\* C26: _append_blocks sends the blocks in consecutive requests of at most
\* 100 blocks each, the batches in call order make up the input list with
\* no block dropped, duplicated or reordered, and every toggle block built
\* by _build_blocks has at most 50 children.
BlocksAreBatchedInOrder ==
    notion.stage # "idle" =>
        /\ \A c \in 1..Len(notion.calls) :
              /\ Len(notion.calls[c]) >= 1
              /\ Len(notion.calls[c]) <= 100
        /\ Len(BlocksSent) <= Len(notion.blocks)
        /\ BlocksSent = SubSeq(notion.blocks, 1, Len(BlocksSent))
        /\ (notion.stage = "returned" /\ notion.exc = None) =>
              BlocksSent = notion.blocks
        /\ \A b \in 1..Len(notion.blocks) :
              notion.blocks[b].type = "toggle" =>
                  Len(notion.blocks[b].children) <= 50

\* C26 witness: more than 200 blocks have been sent in three requests, the
\* first two of 100 blocks, and the last block is a toggle of 50 children
\* for a group whose items gave more than 50.
ThreeRequestsAndCutToggle ==
    /\ notion.stage = "returned"
    /\ notion.exc = None
    /\ Len(notion.calls) = 3
    /\ Len(notion.calls[1]) = 100
    /\ Len(notion.calls[2]) = 100
    /\ Len(notion.blocks) > 200
    /\ LET last == notion.blocks[Len(notion.blocks)]
       IN  /\ last.type = "toggle"
           /\ Len(last.children) = 50
           /\ Len(ToggleBlocks("GitHub", notion.digest_data.all_scored_contents, 1)) > 50

\* C28: if the creation of the page fails the error propagates and no
\* block is appended; once the page is created, send_daily_digest returns
\* the url of the page, whatever the failure of the append call.
PageUrlReturnedOnceCreated ==
    /\ (notion.stage = "raised" /\ ~ notion.created) => notion.calls = <<>>
    /\ (notion.stage \in {"returned", "raised"} /\ notion.created) =>
          /\ notion.stage = "returned"
          /\ notion.result = PageUrl

\* the part of C28 that the code satisfies: the same statement for the
\* failures that are an APIResponseError
PageUrlReturnedAfterApiError ==
    notion.exc \in {None, "APIResponseError"} => PageUrlReturnedOnceCreated


====
